---------------------------- MODULE Spec2Model ----------------------------
(***************************************************************************)
(* NoteMind: chat-session / message synchronisation, the AI response       *)
(* orchestrator (src/src/pages/Index.tsx) and the audio job poller of the  *)
(* NoteEditor (src/src/components/AIChat.tsx), as state machines.          *)
(*                                                                         *)
(* React state is modelled by one variable per useState hook.  A handler   *)
(* runs atomically from one await to the next; the state updates it makes  *)
(* and the effects those updates trigger (React 18 batches them and runs   *)
(* the effects of the commit before the next task) belong to the same      *)
(* step.  Every remote call is in flight between the step that issues it   *)
(* and the step that handles its result, and a read of the remote store is *)
(* evaluated by the server in a step of its own, so that the store can     *)
(* change between the evaluation and the use of the result.                *)
(*                                                                         *)
(* One signed-in user; submissions carry text, documents and notes (no     *)
(* image).  Ids and timestamps are integers handed out in increasing       *)
(* order; a null id is 0.  lastOp, readFailed, terminalSeen, noteUpdates   *)
(* and the finished entries of msgLoads are history, not program state.    *)
(*                                                                         *)
(* The Session Store specifications start before sign-in (user of useAuth  *)
(* is null) with sessions already in the store.  Deleting a chat_sessions  *)
(* row deletes its chat_messages rows (foreign key of the schema, which is *)
(* not part of src).  The session list component is not part of src        *)
(* either: its buttons are taken to call the props Index passes, load more *)
(* only while hasMoreChatSessions.  opsLeft counts down the session        *)
(* operations of a behaviour.                                              *)
(*                                                                         *)
(* In the Context Builder specification a text is the sequence of its      *)
(* pieces and a field of a document or note is the number of its           *)
(* characters.                                                             *)
(*                                                                         *)
(* The Message Store specification starts with a session selected and its  *)
(* first page being loaded; it adds handleDeleteMessage to the loads,      *)
(* submissions and regenerations of that session.                          *)
(*                                                                         *)
(* The text of the NoteEditor follows the first NoteEditor of AIChat.tsx   *)
(* (lines 1110-3147): the textarea writes content, draftContent is written *)
(* by the note effect and by a finished audio job, and the debounce effect *)
(* copies draftContent to content 500 ms after draftContent was set.  A    *)
(* text is an opaque value.  The fair audio specification assumes that the *)
(* interval fires while it exists and that every remote call returns.      *)
(***************************************************************************)
EXTENDS Integers, Sequences, FiniteSets, TLC

VARIABLES
    \* ---- remote store (supabase tables)
    dbSessions,               \* chat_sessions rows
    dbMessages,               \* chat_messages rows
    \* ---- Index.tsx component state
    chatSessions,             \* useState<ChatSession[]>
    activeChatSessionId,      \* useState<string | null>, 0 is null
    chatMessages,             \* the local message buffer (useAppData)
    hasMoreMessages,
    isAILoading,
    isSubmittingUserMessage,
    selectedDocumentIds,
    chatSessionsLoadedCount,
    hasMoreChatSessions,
    \* ---- calls in flight
    msgLoads,                 \* loadSessionMessages calls, the finished ones kept (history)
    olderLoads,               \* handleLoadOlderChatMessages calls
    subs,                     \* handleSubmit calls past the guard
    regens,                   \* handleRegenerateResponse / handleRetryFailedMessage calls
    \* ---- environment
    nextId,                   \* next id the store / crypto.randomUUID hands out
    now,                      \* the clock read by new Date()
    olderCalls,               \* number of handleLoadOlderChatMessages calls issued
    submits,                  \* number of handleSubmit calls past the guard
    regenCalls,               \* number of regenerate / retry calls issued
    lastOp,                   \* the step taken last (history)
    \* ---- NoteEditor state (AIChat.tsx)
    audioProcessingJobId,     \* useState<string | null>, 0 is null
    isProcessingAudio,
    isGeneratingAudioNote,
    isGeneratingAudioSummary,
    isTranslatingAudio,
    uploadedAudioDetails,     \* TRUE: an uploaded audio file is held
    isAudioOptionsVisible,
    pollInterval,             \* job id the live setInterval polls, 0: no interval
    polls,                    \* status reads in flight
    audioOp,                  \* the upload and the job start in flight
    jobStatus,                \* audio_processing_results.status per job id
    jobsStarted,              \* job ids handed out by process-audio
    mounted,                  \* the NoteEditor is mounted
    noteVersion,              \* identity of the note prop
    terminalSeen,             \* [job, kind]: a poll of job observed kind (history)
    noteUpdates,              \* per job: onNoteUpdate calls made by the poller (history)
    \* ---- session operations of Index.tsx
    user,                     \* useAppData().user is set (signed in)
    sessLoads,                \* loadChatSessions calls started by the effect
    sessCalls,                \* createNewChatSession (button) / deleteChatSession /
                              \* renameChatSession calls in flight
    opsLeft,                  \* session operations the behaviour may still issue
    readFailed,               \* a select of chat_sessions has failed (history)
    \* ---- context of the AI request
    documents,                \* useAppData().documents
    notes,                    \* useAppData().notes
    chatHistory,              \* the chatHistory of the last gemini-chat request built
    context,                  \* the text buildRichContext returned last
    \* ---- message deletion of Index.tsx
    dels,                     \* handleDeleteMessage calls in flight
    deletes,                  \* handleDeleteMessage calls so far
    \* ---- content of the NoteEditor (AIChat.tsx)
    content,                  \* useState(note.content), what handleSave stores
    draftContent,             \* useState(note.content)
    debounce,                 \* the setTimeout of the debounce effect and its draftContent
    typed,                    \* the text typed last into the textarea (history)
    saved                     \* content of the note handleSave passed last (history)

chatVars == <<dbSessions, dbMessages, chatSessions, activeChatSessionId, chatMessages,
              hasMoreMessages, isAILoading, isSubmittingUserMessage, selectedDocumentIds,
              chatSessionsLoadedCount, hasMoreChatSessions, msgLoads, olderLoads, subs,
              regens, nextId, now, olderCalls, submits, regenCalls>>

audioVars == <<audioProcessingJobId, isProcessingAudio, isGeneratingAudioNote,
               isGeneratingAudioSummary, isTranslatingAudio, uploadedAudioDetails,
               isAudioOptionsVisible, pollInterval, polls, audioOp, jobStatus,
               jobsStarted, mounted, noteVersion, terminalSeen, noteUpdates>>

sessVars == <<user, sessLoads, sessCalls, opsLeft, readFailed>>

ctxVars == <<documents, notes, chatHistory, context>>

delVars == <<dels, deletes>>

editorVars == <<content, draftContent, debounce, typed, saved>>

vars == <<chatVars, audioVars, sessVars, ctxVars, delVars, editorVars, lastOp>>

(***************************************************************************)
(* Program constants and model bounds                                      *)
(***************************************************************************)
CHAT_SESSIONS_PER_PAGE == 10
CHAT_MESSAGES_PER_PAGE == 20
DOC_CONTENT_LIMIT == 2000    \* doc.content_extracted.substring(0, 2000)
NOTE_CONTENT_LIMIT == 1500   \* note.content.substring(0, 1500)
ELLIPSIS_LENGTH == 3         \* '...'

MaxStored == 22      \* rows of the paged session in the pagination specification
MaxOlderCalls == 3   \* handleLoadOlderChatMessages calls per behaviour
MaxLoads == 2        \* loadSessionMessages calls per behaviour, older-page reads in flight
MaxSubmits == 2      \* handleSubmit calls per behaviour
MaxRegens == 1       \* regenerate / retry calls per behaviour
MaxJobs == 2         \* audio jobs per behaviour
MaxPolls == 2        \* status reads in flight at a time
MaxNoteVersions == 2 \* changes of the note prop per behaviour
MaxStoredSessions == 2 \* sessions in the store before the user signs in
MaxSessionOps == 2   \* load more / new chat / delete / rename calls per behaviour
MaxSessionOpsChat == 1 \* the same, in behaviours with a submission
MaxSessLoads == 2    \* loadChatSessions calls of the effect in flight at a time
MaxSessCalls == 2    \* create / delete / rename calls in flight at a time
MaxLoadedCount == 20 \* cap of chatSessionsLoadedCount
MaxDeletes == 1      \* handleDeleteMessage calls per behaviour

NoSession == 0
NoJob == 0

\* titles of chat_sessions rows: the one createNewChatSession inserts and the
\* one the user renames to
NewChat == "New Chat"
Renamed == "renamed"

\* what the user submits: a text and the documents and notes attached to it
Inputs == {[text |-> "q1", docs |-> {}, notes |-> {}],
           [text |-> "q2", docs |-> {"d1"}, notes |-> {"n1"}]}
\* the document selection before the first submission
DocSelections == {{"d2"}}

\* message contents the orchestrator writes
AIResponse == "response"
Thinking == "AI is thinking..."
FailedRegenerate == "Failed to regenerate response"
FailedResponse == "I'm sorry, I couldn't generate a response"
NoOriginal == ""

\* texts of the NoteEditor: the content of the note prop, what the user
\* types, the transcript of an audio job; NoText: nothing typed / saved yet
NoteContent == "note"
NoteContents == {NoteContent, "other note"}
Typed == {"typed1", "typed2"}
Transcript == "transcript"
NoText == "none"

\* the timer of the debounce effect
Disarmed == [armed |-> FALSE, value |-> NoText]

Armed(text) == [armed |-> TRUE, value |-> text]

Min(a, b) == IF a < b THEN a ELSE b

NoCall == [pc |-> "none"]

\* lastOp: the name of the step, the session / message / job it is about, and
\* the record of the call it belongs to
Op(name, id) == [op |-> name, id |-> id, call |-> NoCall]

OpCall(name, id, c) == [op |-> name, id |-> id, call |-> c]

(***************************************************************************)
(* Sequences                                                               *)
(***************************************************************************)
Range(s) == {s[i] : i \in 1..Len(s)}

Reverse(s) == [i \in 1..Len(s) |-> s[Len(s) + 1 - i]]

Take(s, n) == SubSeq(s, 1, Min(n, Len(s)))

RemoveAt(s, i) == SubSeq(s, 1, i - 1) \o SubSeq(s, i + 1, Len(s))


(***************************************************************************)
(* The remote store: chat_messages                                         *)
(***************************************************************************)
\* the messages of a buffer whose id is in ids, in their order
RECURSIVE SelectIds(_, _)
SelectIds(buf, ids) ==
    IF buf = <<>> THEN <<>>
    ELSE IF Head(buf).id \in ids THEN <<Head(buf)>> \o SelectIds(Tail(buf), ids)
         ELSE SelectIds(Tail(buf), ids)

MessagesOf(s) == {r \in dbMessages : r.session_id = s}

\* ORDER BY timestamp DESC leaves the order of rows with equal timestamps to
\* the store; tb picks one of the two orders by id.
Newer(r, q, tb) ==
    \/ r.timestamp > q.timestamp
    \/ r.timestamp = q.timestamp /\ (IF tb THEN r.id >= q.id ELSE r.id <= q.id)

RECURSIVE OrderDesc(_, _)
OrderDesc(rows, tb) ==
    IF rows = {} THEN <<>>
    ELSE LET top == CHOOSE r \in rows : \A q \in rows : Newer(r, q, tb)
         IN  <<top>> \o OrderDesc(rows \ {top}, tb)

\* .order('timestamp', {ascending: false}).limit(CHAT_MESSAGES_PER_PAGE)
SelectLatest(rows, tb) == Take(OrderDesc(rows, tb), CHAT_MESSAGES_PER_PAGE)

\* snake_case row -> camelCase Message; session_id is kept only to name the
\* session a buffered message came from.
FormatMessage(msg) ==
    [id |-> msg.id,
     content |-> msg.content,
     role |-> msg.role,
     timestamp |-> msg.timestamp,
     isError |-> msg.is_error,
     originalUserMessageContent |-> NoOriginal,
     attachedDocumentIds |-> msg.attached_document_ids,
     attachedNoteIds |-> msg.attached_note_ids,
     session_id |-> msg.session_id]

\* a mapping of the rows read that leaves their attachment ids out
FormatRowsWithoutAttachments(rows) ==
    Reverse([i \in 1..Len(rows) |->
                [FormatMessage(rows[i]) EXCEPT !.attachedDocumentIds = {},
                                               !.attachedNoteIds = {}]])

\* data.map(...).reverse(): oldest first
FormatRows(rows) == Reverse([i \in 1..Len(rows) |-> FormatMessage(rows[i])])

SessionIds(list) == {list[i].id : i \in 1..Len(list)}

SessionRow(list, s) == CHOOSE r \in Range(list) : r.id = s

Sent(s) == [sid |-> s, phase |-> "sent", rows |-> <<>>]

(***************************************************************************)
(* Message Store: loadSessionMessages, handleLoadOlderChatMessages         *)
(***************************************************************************)
\* useEffect([activeChatSessionId, ...]) for a session id: loadSessionMessages(id)
loadSessionMessages(loads, s) == Append(loads, Sent(s))

\* useEffect([activeChatSessionId, chatSessions]): the selection follows the
\* active session's document_ids; sel is the selection the commit set
SelectionEffect(active, list, sel) ==
    IF active # NoSession /\ list # <<>>
    THEN IF active \in SessionIds(list) THEN SessionRow(list, active).document_ids ELSE sel
    ELSE IF active = NoSession THEN {} ELSE sel

\* onChatSessionSelect: setActiveChatSessionId(s), then the effects of the
\* commit: loadSessionMessages(s) and the selection of the session's documents.
onChatSessionSelect(s) ==
    /\ s \in SessionIds(chatSessions)
    /\ s # activeChatSessionId
    /\ Len(msgLoads) < MaxLoads
    /\ activeChatSessionId' = s
    /\ msgLoads' = loadSessionMessages(msgLoads, s)
    /\ selectedDocumentIds' = SelectionEffect(s, chatSessions, selectedDocumentIds)
    /\ lastOp' = Op("onChatSessionSelect", s)
    /\ UNCHANGED <<dbSessions, dbMessages, chatSessions, chatMessages, hasMoreMessages,
                   isAILoading, isSubmittingUserMessage, chatSessionsLoadedCount,
                   hasMoreChatSessions, olderLoads, subs, regens, nextId, now,
                   olderCalls, submits, regenCalls>>
    /\ UNCHANGED <<audioVars, sessVars, ctxVars, delVars, editorVars>>

\* the store answers the select of loadSessionMessages, with rows or an error
loadSessionMessagesQuery(i) ==
    /\ i \in 1..Len(msgLoads)
    /\ msgLoads[i].phase = "sent"
    /\ \/ \E tb \in BOOLEAN :
            msgLoads' = [msgLoads EXCEPT ![i].phase = "rows",
                             ![i].rows = SelectLatest(MessagesOf(msgLoads[i].sid), tb)]
       \/ msgLoads' = [msgLoads EXCEPT ![i].phase = "error"]
    /\ lastOp' = Op("loadSessionMessagesQuery", msgLoads[i].sid)
    /\ UNCHANGED <<dbSessions, dbMessages, chatSessions, activeChatSessionId, chatMessages,
                   hasMoreMessages, isAILoading, isSubmittingUserMessage,
                   selectedDocumentIds, chatSessionsLoadedCount, hasMoreChatSessions,
                   olderLoads, subs, regens, nextId, now, olderCalls, submits, regenCalls>>
    /\ UNCHANGED <<audioVars, sessVars, ctxVars, delVars, editorVars>>

\* loadSessionMessages after its await: the buffer is replaced
loadSessionMessagesReturn(i) ==
    /\ i \in 1..Len(msgLoads)
    /\ \/ /\ msgLoads[i].phase = "rows"
          /\ chatMessages' = FormatRows(msgLoads[i].rows)
          /\ hasMoreMessages' = (Len(msgLoads[i].rows) = CHAT_MESSAGES_PER_PAGE)
       \/ /\ msgLoads[i].phase = "error"
          /\ chatMessages' = <<>>
          /\ UNCHANGED hasMoreMessages
    /\ msgLoads' = [msgLoads EXCEPT ![i].rows = <<>>,
                         ![i].phase = IF @ = "rows" THEN "applied" ELSE "failed"]
    /\ lastOp' = Op("loadSessionMessagesReturn", msgLoads[i].sid)
    /\ UNCHANGED <<dbSessions, dbMessages, chatSessions, activeChatSessionId,
                   isAILoading, isSubmittingUserMessage, selectedDocumentIds,
                   chatSessionsLoadedCount, hasMoreChatSessions, olderLoads, subs, regens,
                   nextId, now, olderCalls, submits, regenCalls>>
    /\ UNCHANGED <<audioVars, sessVars, ctxVars, delVars, editorVars>>

\* handleLoadOlderChatMessages up to its await
handleLoadOlderChatMessages ==
    /\ activeChatSessionId # NoSession
    /\ Len(chatMessages) > 0
    /\ olderCalls < MaxOlderCalls
    /\ Len(olderLoads) < MaxLoads
    /\ olderLoads' = Append(olderLoads,
                            [sid |-> activeChatSessionId,
                             before |-> chatMessages[1].timestamp,
                             phase |-> "sent", rows |-> <<>>])
    /\ olderCalls' = olderCalls + 1
    /\ lastOp' = Op("handleLoadOlderChatMessages", activeChatSessionId)
    /\ UNCHANGED <<dbSessions, dbMessages, chatSessions, activeChatSessionId, chatMessages,
                   hasMoreMessages, isAILoading, isSubmittingUserMessage,
                   selectedDocumentIds, chatSessionsLoadedCount, hasMoreChatSessions,
                   msgLoads, subs, regens, nextId, now, submits, regenCalls>>
    /\ UNCHANGED <<audioVars, sessVars, ctxVars, delVars, editorVars>>

\* the store answers .lt('timestamp', oldestMessageTimestamp)
handleLoadOlderQuery(i) ==
    /\ i \in 1..Len(olderLoads)
    /\ olderLoads[i].phase = "sent"
    /\ \/ \E tb \in BOOLEAN :
            olderLoads' = [olderLoads EXCEPT ![i].phase = "rows",
                ![i].rows = SelectLatest({r \in MessagesOf(olderLoads[i].sid) :
                                              r.timestamp < olderLoads[i].before}, tb)]
       \/ olderLoads' = [olderLoads EXCEPT ![i].phase = "error"]
    /\ lastOp' = Op("handleLoadOlderQuery", olderLoads[i].sid)
    /\ UNCHANGED <<dbSessions, dbMessages, chatSessions, activeChatSessionId, chatMessages,
                   hasMoreMessages, isAILoading, isSubmittingUserMessage,
                   selectedDocumentIds, chatSessionsLoadedCount, hasMoreChatSessions,
                   msgLoads, subs, regens, nextId, now, olderCalls, submits, regenCalls>>
    /\ UNCHANGED <<audioVars, sessVars, ctxVars, delVars, editorVars>>

\* handleLoadOlderChatMessages after its await: the rows are prepended
handleLoadOlderReturn(i) ==
    /\ i \in 1..Len(olderLoads)
    /\ \/ /\ olderLoads[i].phase = "rows"
          /\ chatMessages' = FormatRows(olderLoads[i].rows) \o chatMessages
          /\ hasMoreMessages' = (Len(olderLoads[i].rows) = CHAT_MESSAGES_PER_PAGE)
       \/ /\ olderLoads[i].phase = "error"
          /\ UNCHANGED <<chatMessages, hasMoreMessages>>
    /\ olderLoads' = RemoveAt(olderLoads, i)
    /\ lastOp' = Op("handleLoadOlderReturn", olderLoads[i].sid)
    /\ UNCHANGED <<dbSessions, dbMessages, chatSessions, activeChatSessionId,
                   isAILoading, isSubmittingUserMessage, selectedDocumentIds,
                   chatSessionsLoadedCount, hasMoreChatSessions, msgLoads, subs, regens,
                   nextId, now, olderCalls, submits, regenCalls>>
    /\ UNCHANGED <<audioVars, sessVars, ctxVars, delVars, editorVars>>

(***************************************************************************)
(* Session Store: the remote chat_sessions table and the local list        *)
(***************************************************************************)
\* .order('last_message_at', {ascending: false}); rows with equal
\* last_message_at in id order
RECURSIVE OrderSessions(_)
OrderSessions(rows) ==
    IF rows = {} THEN <<>>
    ELSE LET top == CHOOSE r \in rows : \A q \in rows :
                        \/ r.last_message_at > q.last_message_at
                        \/ r.last_message_at = q.last_message_at /\ r.id >= q.id
         IN  <<top>> \o OrderSessions(rows \ {top})

\* loadChatSessions: .range(0, chatSessionsLoadedCount - 1)
SelectSessions(count) == Take(OrderSessions(dbSessions), count)

\* Array.prototype.sort with (a, b) => b.last_message_at - a.last_message_at:
\* stable, newest first
RECURSIVE InsertByLastMessage(_, _)
InsertByLastMessage(sorted, x) ==
    IF sorted = <<>> THEN <<x>>
    ELSE IF Head(sorted).last_message_at >= x.last_message_at
         THEN <<Head(sorted)>> \o InsertByLastMessage(Tail(sorted), x)
         ELSE <<x>> \o sorted

RECURSIVE SortByLastMessage(_)
SortByLastMessage(list) ==
    IF list = <<>> THEN <<>>
    ELSE InsertByLastMessage(SortByLastMessage(SubSeq(list, 1, Len(list) - 1)),
                             list[Len(list)])

\* a refresh of the entry that leaves the list in its order
TouchSessionUnsorted(list, s, t, docs) ==
    [i \in 1..Len(list) |->
        IF list[i].id = s
        THEN [list[i] EXCEPT !.last_message_at = t, !.document_ids = docs]
        ELSE list[i]]

\* _getAIResponse, setChatSessions(prev => ...): the session's entry is
\* refreshed and the list sorted again
TouchSession(list, s, t, docs) ==
    SortByLastMessage([i \in 1..Len(list) |->
        IF list[i].id = s
        THEN [list[i] EXCEPT !.last_message_at = t, !.document_ids = docs]
        ELSE list[i]])

\* .update({last_message_at, document_ids}).eq('id', s) on chat_sessions
TouchSessionRows(rows, s, t, docs) ==
    {IF r.id = s THEN [r EXCEPT !.last_message_at = t, !.document_ids = docs] ELSE r :
        r \in rows}

\* .update({document_ids}).eq('id', s) on chat_sessions
SetSessionDocs(rows, s, docs) ==
    {IF r.id = s THEN [r EXCEPT !.document_ids = docs] ELSE r : r \in rows}

(***************************************************************************)
(* Session Store: loadChatSessions, load more, create, delete, rename      *)
(***************************************************************************)
\* loadChatSessions up to its await, with the chatSessionsLoadedCount of its
\* closure
SessLoad(count) == [count |-> count, phase |-> "sent", rows |-> <<>>]

\* setChatSessionsLoadedCount(CHAT_SESSIONS_PER_PAGE) and the effect on
\* [user, loadChatSessions, chatSessionsLoadedCount]: a change of the counter
\* starts loadChatSessions with the new counter
CountReset(loads, count) ==
    IF count # CHAT_SESSIONS_PER_PAGE
    THEN Append(loads, SessLoad(CHAT_SESSIONS_PER_PAGE))
    ELSE loads

\* setActiveChatSessionId(s) and the effect on [activeChatSessionId, ...]: a
\* change to a session starts loadSessionMessages for it
ActiveEffect(loads, old, s) ==
    IF s # old /\ s # NoSession THEN loadSessionMessages(loads, s) ELSE loads

\* the user of useAppData() arrives; the effects on [user, ...] run:
\* loadChatSessions, and with no active session the buffer is cleared
signIn ==
    /\ ~user
    /\ user' = TRUE
    /\ sessLoads' = Append(sessLoads, SessLoad(chatSessionsLoadedCount))
    /\ chatMessages' = IF activeChatSessionId = NoSession THEN <<>> ELSE chatMessages
    /\ hasMoreMessages' = IF activeChatSessionId = NoSession THEN FALSE
                                                             ELSE hasMoreMessages
    /\ lastOp' = Op("signIn", NoSession)
    /\ UNCHANGED <<dbSessions, dbMessages, chatSessions, activeChatSessionId,
                   isAILoading, isSubmittingUserMessage, selectedDocumentIds,
                   chatSessionsLoadedCount, hasMoreChatSessions, msgLoads, olderLoads,
                   subs, regens, nextId, now, olderCalls, submits, regenCalls>>
    /\ UNCHANGED <<sessCalls, opsLeft, readFailed>>
    /\ UNCHANGED <<audioVars, ctxVars, delVars, editorVars>>

\* the store answers the select of loadChatSessions, with rows or an error
loadChatSessionsQuery(i) ==
    /\ i \in 1..Len(sessLoads)
    /\ sessLoads[i].phase = "sent"
    /\ \/ /\ sessLoads' = [sessLoads EXCEPT ![i].phase = "rows",
                               ![i].rows = SelectSessions(sessLoads[i].count)]
          /\ UNCHANGED readFailed
       \/ /\ sessLoads' = [sessLoads EXCEPT ![i].phase = "error"]
          /\ readFailed' = TRUE
    /\ lastOp' = Op("loadChatSessionsQuery", NoSession)
    /\ UNCHANGED chatVars
    /\ UNCHANGED <<user, sessCalls, opsLeft>>
    /\ UNCHANGED <<audioVars, ctxVars, delVars, editorVars>>

\* loadChatSessions after its await: the list is replaced and the effect on
\* [activeChatSessionId, chatSessions] selects the active session's documents
loadChatSessionsReturn(i) ==
    /\ i \in 1..Len(sessLoads)
    /\ \/ /\ sessLoads[i].phase = "rows"
          /\ chatSessions' = sessLoads[i].rows
          /\ hasMoreChatSessions' = (Len(sessLoads[i].rows) = sessLoads[i].count)
          /\ selectedDocumentIds' =
                 SelectionEffect(activeChatSessionId, chatSessions', selectedDocumentIds)
       \/ /\ sessLoads[i].phase = "error"
          /\ UNCHANGED <<chatSessions, hasMoreChatSessions, selectedDocumentIds>>
    /\ sessLoads' = RemoveAt(sessLoads, i)
    /\ lastOp' = OpCall("loadChatSessionsReturn", NoSession, sessLoads[i])
    /\ UNCHANGED <<dbSessions, dbMessages, activeChatSessionId, chatMessages,
                   hasMoreMessages, isAILoading, isSubmittingUserMessage,
                   chatSessionsLoadedCount, msgLoads, olderLoads, subs, regens,
                   nextId, now, olderCalls, submits, regenCalls>>
    /\ UNCHANGED <<user, sessCalls, opsLeft, readFailed>>
    /\ UNCHANGED <<audioVars, ctxVars, delVars, editorVars>>

\* handleLoadMoreChatSessions: the counter grows by a page and the effect
\* starts loadChatSessions with it
handleLoadMoreChatSessions ==
    /\ user
    /\ hasMoreChatSessions
    /\ opsLeft > 0
    /\ Len(sessLoads) < MaxSessLoads
    /\ chatSessionsLoadedCount < MaxLoadedCount
    /\ chatSessionsLoadedCount' = chatSessionsLoadedCount + CHAT_SESSIONS_PER_PAGE
    /\ sessLoads' = Append(sessLoads, SessLoad(chatSessionsLoadedCount'))
    /\ opsLeft' = opsLeft - 1
    /\ lastOp' = Op("handleLoadMoreChatSessions", NoSession)
    /\ UNCHANGED <<dbSessions, dbMessages, chatSessions, activeChatSessionId, chatMessages,
                   hasMoreMessages, isAILoading, isSubmittingUserMessage,
                   selectedDocumentIds, hasMoreChatSessions, msgLoads, olderLoads,
                   subs, regens, nextId, now, olderCalls, submits, regenCalls>>
    /\ UNCHANGED <<user, sessCalls, readFailed>>
    /\ UNCHANGED <<audioVars, ctxVars, delVars, editorVars>>

\* the row the insert of createNewChatSession returns
NewSessionRow(id, t, docs) ==
    [id |-> id, title |-> NewChat, last_message_at |-> t, document_ids |-> docs]

\* await loadChatSessions() inside createNewChatSession / deleteChatSession:
\* the callback of the caller's closure, hence its chatSessionsLoadedCount;
\* an error is caught inside loadChatSessions and the list is kept
AwaitLoadChatSessions(count) ==
    \/ /\ chatSessions' = SelectSessions(count)
       /\ hasMoreChatSessions' = (Len(chatSessions') = count)
       /\ UNCHANGED readFailed
    \/ /\ UNCHANGED <<chatSessions, hasMoreChatSessions>>
       /\ readFailed' = TRUE

\* onNewChatSession: createNewChatSession up to the insert; without a user it
\* returns null at once
onNewChatSession ==
    /\ opsLeft > 0
    /\ Len(sessCalls) < MaxSessCalls
    /\ opsLeft' = opsLeft - 1
    /\ \/ /\ ~user
          /\ lastOp' = Op("createNewChatSession:noUser", NoSession)
          /\ UNCHANGED sessCalls
       \/ /\ user
          /\ sessCalls' = Append(sessCalls,
                 [kind |-> "create", pc |-> "insert", sid |-> NoSession,
                  closSelected |-> selectedDocumentIds,
                  closCount |-> chatSessionsLoadedCount])
          /\ lastOp' = Op("onNewChatSession", NoSession)
    /\ UNCHANGED chatVars
    /\ UNCHANGED <<user, sessLoads, readFailed>>
    /\ UNCHANGED <<audioVars, ctxVars, delVars, editorVars>>

\* a createNewChatSession that resets the counter before it inserts
CreateFailedAfterReset(i) ==
    /\ sessCalls' = RemoveAt(sessCalls, i)
    /\ lastOp' = Op("createNewChatSession:failed", NoSession)
    /\ chatSessionsLoadedCount' = CHAT_SESSIONS_PER_PAGE
    /\ sessLoads' = CountReset(sessLoads, chatSessionsLoadedCount)
    /\ UNCHANGED <<dbSessions, nextId, now>>

\* the catch of createNewChatSession: the insert failed, null is returned
CreateFailed(i) ==
    /\ sessCalls' = RemoveAt(sessCalls, i)
    /\ lastOp' = Op("createNewChatSession:failed", NoSession)
    /\ UNCHANGED <<dbSessions, nextId, now, chatSessionsLoadedCount, sessLoads>>

\* the insert into chat_sessions answers: the counter is reset and
\* loadChatSessions awaited, or the error is caught and null returned
onNewChatSessionInsert(i) ==
    /\ i \in 1..Len(sessCalls)
    /\ sessCalls[i].kind = "create"
    /\ sessCalls[i].pc = "insert"
    /\ \/ /\ dbSessions' = dbSessions \cup
                 {NewSessionRow(nextId, now, sessCalls[i].closSelected)}
          /\ nextId' = nextId + 1
          /\ now' = now + 1
          /\ chatSessionsLoadedCount' = CHAT_SESSIONS_PER_PAGE
          /\ sessLoads' = CountReset(sessLoads, chatSessionsLoadedCount)
          /\ sessCalls' = [sessCalls EXCEPT ![i].pc = "reloadSessions", ![i].sid = nextId]
          /\ lastOp' = Op("createNewChatSession", nextId)
       \/ CreateFailed(i)
    /\ UNCHANGED <<dbMessages, chatSessions, activeChatSessionId, chatMessages,
                   hasMoreMessages, isAILoading, isSubmittingUserMessage,
                   selectedDocumentIds, hasMoreChatSessions, msgLoads, olderLoads,
                   subs, regens, olderCalls, submits, regenCalls>>
    /\ UNCHANGED <<user, opsLeft, readFailed>>
    /\ UNCHANGED <<audioVars, ctxVars, delVars, editorVars>>

\* createNewChatSession after await loadChatSessions(): the new session
\* becomes active with an empty buffer and its id is returned
onNewChatSessionReloaded(i) ==
    /\ i \in 1..Len(sessCalls)
    /\ sessCalls[i].kind = "create"
    /\ sessCalls[i].pc = "reloadSessions"
    /\ Len(msgLoads) < MaxLoads
    /\ AwaitLoadChatSessions(sessCalls[i].closCount)
    /\ activeChatSessionId' = sessCalls[i].sid
    /\ chatMessages' = <<>>
    /\ hasMoreMessages' = FALSE
    /\ msgLoads' = ActiveEffect(msgLoads, activeChatSessionId, sessCalls[i].sid)
    /\ selectedDocumentIds' =
           SelectionEffect(sessCalls[i].sid, chatSessions', selectedDocumentIds)
    /\ sessCalls' = RemoveAt(sessCalls, i)
    /\ lastOp' = OpCall("createNewChatSession:done", sessCalls[i].sid, sessCalls[i])
    /\ UNCHANGED <<dbSessions, dbMessages, isAILoading, isSubmittingUserMessage,
                   chatSessionsLoadedCount, olderLoads, subs, regens, nextId, now,
                   olderCalls, submits, regenCalls>>
    /\ UNCHANGED <<user, sessLoads, opsLeft>>
    /\ UNCHANGED <<audioVars, ctxVars, delVars, editorVars>>

\* chatSessions.filter(s => s.id !== sessionId)
RECURSIVE WithoutSession(_, _)
WithoutSession(list, s) ==
    IF list = <<>> THEN <<>>
    ELSE IF Head(list).id = s THEN WithoutSession(Tail(list), s)
         ELSE <<Head(list)>> \o WithoutSession(Tail(list), s)

\* the session deleteChatSession makes active, from the chatSessions and
\* activeChatSessionId of its closure; cur is the session active now
Reselect(c, cur) ==
    IF c.closActive = c.sid
    THEN IF Len(c.closList) > 1 /\ WithoutSession(c.closList, c.sid) # <<>>
         THEN SortByLastMessage(WithoutSession(c.closList, c.sid))[1].id
         ELSE NoSession
    ELSE cur

\* deleteChatSession up to the delete in chat_sessions
deleteChatSession(s) ==
    /\ user
    /\ s \in SessionIds(chatSessions)
    /\ opsLeft > 0
    /\ Len(sessCalls) < MaxSessCalls
    /\ opsLeft' = opsLeft - 1
    /\ sessCalls' = Append(sessCalls,
           [kind |-> "delete", pc |-> "delete", sid |-> s,
            closActive |-> activeChatSessionId, closList |-> chatSessions,
            closCount |-> chatSessionsLoadedCount])
    /\ lastOp' = Op("deleteChatSession", s)
    /\ UNCHANGED chatVars
    /\ UNCHANGED <<user, sessLoads, readFailed>>
    /\ UNCHANGED <<audioVars, ctxVars, delVars, editorVars>>

\* the store deletes the row (its messages go with it): the counter is reset
\* and loadChatSessions awaited; or it refuses and the catch runs
deleteChatSessionRemove(i) ==
    /\ i \in 1..Len(sessCalls)
    /\ sessCalls[i].kind = "delete"
    /\ sessCalls[i].pc = "delete"
    /\ \/ /\ dbSessions' = {r \in dbSessions : r.id # sessCalls[i].sid}
          /\ dbMessages' = dbMessages \ MessagesOf(sessCalls[i].sid)
          /\ chatSessionsLoadedCount' = CHAT_SESSIONS_PER_PAGE
          /\ sessLoads' = CountReset(sessLoads, chatSessionsLoadedCount)
          /\ sessCalls' = [sessCalls EXCEPT ![i].pc = "reloadSessions"]
          /\ lastOp' = Op("deleteChatSessionRemove", sessCalls[i].sid)
       \/ /\ sessCalls' = RemoveAt(sessCalls, i)
          /\ lastOp' = Op("deleteChatSession:failed", sessCalls[i].sid)
          /\ UNCHANGED <<dbSessions, dbMessages, chatSessionsLoadedCount, sessLoads>>
    /\ UNCHANGED <<chatSessions, activeChatSessionId, chatMessages, hasMoreMessages,
                   isAILoading, isSubmittingUserMessage, selectedDocumentIds,
                   hasMoreChatSessions, msgLoads, olderLoads, subs, regens, nextId,
                   now, olderCalls, submits, regenCalls>>
    /\ UNCHANGED <<user, opsLeft, readFailed>>
    /\ UNCHANGED <<audioVars, ctxVars, delVars, editorVars>>

\* deleteChatSession after await loadChatSessions(): when the deleted session
\* was the active one of the closure, another session is made active or the
\* selection and the buffer are cleared
deleteChatSessionReloaded(i) ==
    /\ i \in 1..Len(sessCalls)
    /\ sessCalls[i].kind = "delete"
    /\ sessCalls[i].pc = "reloadSessions"
    /\ LET c == sessCalls[i]
           target == Reselect(c, activeChatSessionId)
           cleared == c.closActive = c.sid /\ target = NoSession
       IN  /\ (target # activeChatSessionId /\ target # NoSession)
                  => Len(msgLoads) < MaxLoads
           /\ AwaitLoadChatSessions(c.closCount)
           /\ activeChatSessionId' = target
           /\ chatMessages' = IF cleared THEN <<>> ELSE chatMessages
           /\ hasMoreMessages' = IF cleared THEN FALSE ELSE hasMoreMessages
           /\ msgLoads' = ActiveEffect(msgLoads, activeChatSessionId, target)
           /\ selectedDocumentIds' =
                  SelectionEffect(target, chatSessions', selectedDocumentIds)
           /\ lastOp' = OpCall("deleteChatSession:done", c.sid, c)
    /\ sessCalls' = RemoveAt(sessCalls, i)
    /\ UNCHANGED <<dbSessions, dbMessages, isAILoading, isSubmittingUserMessage,
                   chatSessionsLoadedCount, olderLoads, subs, regens, nextId, now,
                   olderCalls, submits, regenCalls>>
    /\ UNCHANGED <<user, sessLoads, opsLeft>>
    /\ UNCHANGED <<audioVars, ctxVars, delVars, editorVars>>

\* prev.map(s => s.id === sessionId ? {...s, title: newTitle} : s)
SetTitle(list, s, t) ==
    [k \in 1..Len(list) |-> IF list[k].id = s THEN [list[k] EXCEPT !.title = t]
                                               ELSE list[k]]

\* renameChatSession up to the update of chat_sessions
renameChatSession(s) ==
    /\ user
    /\ s \in SessionIds(chatSessions)
    /\ opsLeft > 0
    /\ Len(sessCalls) < MaxSessCalls
    /\ opsLeft' = opsLeft - 1
    /\ sessCalls' = Append(sessCalls, [kind |-> "rename", pc |-> "update", sid |-> s])
    /\ lastOp' = Op("renameChatSession", s)
    /\ UNCHANGED chatVars
    /\ UNCHANGED <<user, sessLoads, readFailed>>
    /\ UNCHANGED <<audioVars, ctxVars, delVars, editorVars>>

\* the update of the title answers: the local entry is renamed and the effect
\* on [activeChatSessionId, chatSessions] runs; or the error is caught
renameChatSessionDone(i) ==
    /\ i \in 1..Len(sessCalls)
    /\ sessCalls[i].kind = "rename"
    /\ \/ /\ dbSessions' = {IF r.id = sessCalls[i].sid THEN [r EXCEPT !.title = Renamed]
                                                       ELSE r : r \in dbSessions}
          /\ chatSessions' = SetTitle(chatSessions, sessCalls[i].sid, Renamed)
          /\ selectedDocumentIds' =
                 SelectionEffect(activeChatSessionId, chatSessions', selectedDocumentIds)
          /\ lastOp' = Op("renameChatSession:done", sessCalls[i].sid)
       \/ /\ lastOp' = Op("renameChatSession:failed", sessCalls[i].sid)
          /\ UNCHANGED <<dbSessions, chatSessions, selectedDocumentIds>>
    /\ sessCalls' = RemoveAt(sessCalls, i)
    /\ UNCHANGED <<dbMessages, activeChatSessionId, chatMessages, hasMoreMessages,
                   isAILoading, isSubmittingUserMessage, chatSessionsLoadedCount,
                   hasMoreChatSessions, msgLoads, olderLoads, subs, regens, nextId,
                   now, olderCalls, submits, regenCalls>>
    /\ UNCHANGED <<user, sessLoads, opsLeft, readFailed>>
    /\ UNCHANGED <<audioVars, ctxVars, delVars, editorVars>>

(***************************************************************************)
(* AI Response Orchestrator: handleSubmit                                  *)
(***************************************************************************)
NewSubmit(text, att) ==
    [pc |-> "getUser", text |-> text, docs |-> att.docs, notes |-> att.notes,
     sid |-> activeChatSessionId,            \* activeChatSessionId of the closure
     fresh |-> FALSE,                        \* the call created its session
     closSelected |-> selectedDocumentIds,   \* createNewChatSession's closure
     closCount |-> chatSessionsLoadedCount,  \* loadChatSessions' closure
     msgId |-> 0, msgTs |-> 0,               \* the row an insert returned
     aiOk |-> FALSE, dbErr |-> FALSE]

\* a guard that looks at isAILoading only
SubmitGuardLoadingOnly == ~isAILoading

\* the guard of handleSubmit (and of the form's submit button)
SubmitGuard == ~isAILoading /\ ~isSubmittingUserMessage

\* handleSubmit up to await supabase.auth.getUser()
handleSubmit(text, att) ==
    /\ SubmitGuard
    /\ submits < MaxSubmits
    /\ isSubmittingUserMessage' = TRUE
    /\ subs' = Append(subs, NewSubmit(text, att))
    /\ submits' = submits + 1
    /\ lastOp' = OpCall("handleSubmit", activeChatSessionId, NewSubmit(text, att))
    /\ UNCHANGED <<dbSessions, dbMessages, chatSessions, activeChatSessionId, chatMessages,
                   hasMoreMessages, isAILoading, selectedDocumentIds,
                   chatSessionsLoadedCount, hasMoreChatSessions, msgLoads, olderLoads,
                   regens, nextId, now, olderCalls, regenCalls>>
    /\ UNCHANGED <<audioVars, sessVars, ctxVars, delVars, editorVars>>

UserRow(c, id, t) ==
    [id |-> id, session_id |-> c.sid, role |-> "user", content |-> c.text,
     timestamp |-> t, is_error |-> FALSE,
     attached_document_ids |-> c.docs, attached_note_ids |-> c.notes]

AssistantRow(c, id, t) ==
    [id |-> id, session_id |-> c.sid, role |-> "assistant", content |-> AIResponse,
     timestamp |-> t, is_error |-> FALSE,
     attached_document_ids |-> {}, attached_note_ids |-> {}]

\* an error message that forgets the user's text
ErrorMessageWithoutOriginal(c, id, t) ==
    [id |-> id, content |-> FailedResponse, role |-> "assistant", timestamp |-> t,
     isError |-> TRUE, originalUserMessageContent |-> NoOriginal,
     attachedDocumentIds |-> {}, attachedNoteIds |-> {}, session_id |-> c.sid]

\* the catch of _getAIResponse in new-message mode: a local message only
ErrorMessage(c, id, t) ==
    [id |-> id, content |-> FailedResponse, role |-> "assistant", timestamp |-> t,
     isError |-> TRUE, originalUserMessageContent |-> c.text,
     attachedDocumentIds |-> {}, attachedNoteIds |-> {}, session_id |-> c.sid]

\* finally of handleSubmit: the call returns
SubmitReturn(i, exit) ==
    /\ isSubmittingUserMessage' = FALSE
    /\ subs' = RemoveAt(subs, i)
    /\ lastOp' = OpCall(exit, subs[i].sid, subs[i])

\* auth.getUser() returns; without a session createNewChatSession starts,
\* with one the user message is sent to the store
handleSubmitGetUser(i) ==
    /\ i \in 1..Len(subs)
    /\ subs[i].pc = "getUser"
    /\ \/ /\ SubmitReturn(i, "handleSubmit:noUser")
          /\ UNCHANGED selectedDocumentIds
       \/ /\ subs[i].sid = NoSession
          /\ subs' = [subs EXCEPT ![i].pc = "createSession"]
          /\ lastOp' = Op("handleSubmitGetUser", NoSession)
          /\ UNCHANGED <<isSubmittingUserMessage, selectedDocumentIds>>
       \/ /\ subs[i].sid # NoSession
          /\ subs' = [subs EXCEPT ![i].pc = "saveUser"]
          /\ selectedDocumentIds' = subs[i].docs
          /\ lastOp' = Op("handleSubmitGetUser", subs[i].sid)
          /\ UNCHANGED isSubmittingUserMessage
    /\ UNCHANGED <<dbSessions, dbMessages, chatSessions, activeChatSessionId, chatMessages,
                   hasMoreMessages, isAILoading, chatSessionsLoadedCount,
                   hasMoreChatSessions, msgLoads, olderLoads, regens, nextId, now,
                   olderCalls, submits, regenCalls>>
    /\ UNCHANGED <<audioVars, sessVars, ctxVars, delVars, editorVars>>

\* createNewChatSession: the insert into chat_sessions answers; on success
\* the page-size counter is reset and loadChatSessions is awaited
createNewChatSession(i) ==
    /\ i \in 1..Len(subs)
    /\ subs[i].pc = "createSession"
    /\ \/ /\ user
          /\ dbSessions' = dbSessions \cup
                 {NewSessionRow(nextId, now, subs[i].closSelected)}
          /\ nextId' = nextId + 1
          /\ now' = now + 1
          /\ chatSessionsLoadedCount' = CHAT_SESSIONS_PER_PAGE
          /\ sessLoads' = CountReset(sessLoads, chatSessionsLoadedCount)
          /\ subs' = [subs EXCEPT ![i].pc = "reloadSessions", ![i].sid = nextId,
                                  ![i].fresh = TRUE]
          /\ lastOp' = Op("createNewChatSession", nextId)
          /\ UNCHANGED isSubmittingUserMessage
       \/ /\ SubmitReturn(i, "handleSubmit:noSession")
          /\ UNCHANGED <<dbSessions, nextId, now, chatSessionsLoadedCount, sessLoads>>
    /\ UNCHANGED <<dbMessages, chatSessions, activeChatSessionId, chatMessages,
                   hasMoreMessages, isAILoading, selectedDocumentIds,
                   hasMoreChatSessions, msgLoads, olderLoads, regens,
                   olderCalls, submits, regenCalls>>
    /\ UNCHANGED <<user, sessCalls, opsLeft, readFailed>>
    /\ UNCHANGED <<audioVars, ctxVars, delVars, editorVars>>

\* createNewChatSession after await loadChatSessions(): the list is replaced
\* (or kept, when the select failed), the new session becomes active with an
\* empty buffer; the commit's effects start loadSessionMessages for it and
\* select its documents; handleSubmit goes on to save the user message
createNewChatSessionReloaded(i) ==
    /\ i \in 1..Len(subs)
    /\ subs[i].pc = "reloadSessions"
    /\ Len(msgLoads) < MaxLoads
    /\ AwaitLoadChatSessions(subs[i].closCount)
    /\ activeChatSessionId' = subs[i].sid
    /\ chatMessages' = <<>>
    /\ hasMoreMessages' = FALSE
    /\ msgLoads' = loadSessionMessages(msgLoads, subs[i].sid)
    /\ selectedDocumentIds' = SelectionEffect(subs[i].sid, chatSessions', subs[i].docs)
    /\ subs' = [subs EXCEPT ![i].pc = "saveUser"]
    /\ lastOp' = Op("createNewChatSessionReloaded", subs[i].sid)
    /\ UNCHANGED <<dbSessions, dbMessages, isAILoading, isSubmittingUserMessage,
                   chatSessionsLoadedCount, olderLoads, regens, nextId, now,
                   olderCalls, submits, regenCalls>>
    /\ UNCHANGED <<user, sessLoads, sessCalls, opsLeft>>
    /\ UNCHANGED <<audioVars, ctxVars, delVars, editorVars>>

\* the store executes the insert of the user message, or refuses it
handleSubmitSaveUser(i) ==
    /\ i \in 1..Len(subs)
    /\ subs[i].pc = "saveUser"
    /\ \/ /\ dbMessages' = dbMessages \cup {UserRow(subs[i], nextId, now)}
          /\ subs' = [subs EXCEPT ![i].pc = "userSaved", ![i].msgId = nextId,
                                  ![i].msgTs = now]
          /\ nextId' = nextId + 1
          /\ now' = now + 1
       \/ /\ subs' = [subs EXCEPT ![i].pc = "userSaveFailed"]
          /\ UNCHANGED <<dbMessages, nextId, now>>
    /\ lastOp' = Op("handleSubmitSaveUser", subs[i].sid)
    /\ UNCHANGED <<dbSessions, chatSessions, activeChatSessionId, chatMessages,
                   hasMoreMessages, isAILoading, isSubmittingUserMessage,
                   selectedDocumentIds, chatSessionsLoadedCount, hasMoreChatSessions,
                   msgLoads, olderLoads, regens, olderCalls, submits, regenCalls>>
    /\ UNCHANGED <<audioVars, sessVars, ctxVars, delVars, editorVars>>

\* handleSubmit after the insert: the user message is appended and
\* _getAIResponse starts (setIsAILoading(true), gemini-chat invoked); or the
\* insert failed and handleSubmit returns
handleSubmitUserSaved(i) ==
    /\ i \in 1..Len(subs)
    /\ \/ /\ subs[i].pc = "userSaved"
          /\ chatMessages' = Append(chatMessages,
                 FormatMessage(UserRow(subs[i], subs[i].msgId, subs[i].msgTs)))
          /\ isAILoading' = TRUE
          /\ subs' = [subs EXCEPT ![i].pc = "aiCall"]
          /\ lastOp' = OpCall("getAIResponse", subs[i].sid, subs[i])
          /\ UNCHANGED isSubmittingUserMessage
       \/ /\ subs[i].pc = "userSaveFailed"
          /\ SubmitReturn(i, "handleSubmit:saveFailed")
          /\ UNCHANGED <<chatMessages, isAILoading>>
    /\ UNCHANGED <<dbSessions, dbMessages, chatSessions, activeChatSessionId,
                   hasMoreMessages, selectedDocumentIds, chatSessionsLoadedCount,
                   hasMoreChatSessions, msgLoads, olderLoads, regens, nextId, now,
                   olderCalls, submits, regenCalls>>
    /\ UNCHANGED <<audioVars, sessVars, ctxVars, delVars, editorVars>>

(***************************************************************************)
(* AI Response Orchestrator: _getAIResponse, new-message mode              *)
(***************************************************************************)
\* catch and finally of _getAIResponse in new-message mode; handleSubmit then
\* updates the session's document_ids
NewMessageFailed(i, why) ==
    /\ chatMessages' = Append(chatMessages, ErrorMessage(subs[i], nextId, now))
    /\ nextId' = nextId + 1
    /\ now' = now + 1
    /\ isAILoading' = FALSE
    /\ subs' = [subs EXCEPT ![i].pc = "updateDocs"]
    /\ lastOp' = OpCall("getAIResponse:failed", subs[i].sid, [subs[i] EXCEPT !.pc = why])

\* gemini-chat answers: a response (the assistant row is sent to the store),
\* an error, or an empty response
getAIResponseInvoked(i) ==
    /\ i \in 1..Len(subs)
    /\ subs[i].pc = "aiCall"
    /\ \/ /\ subs' = [subs EXCEPT ![i].pc = "saveAI"]
          /\ lastOp' = Op("getAIResponse:response", subs[i].sid)
          /\ UNCHANGED <<chatMessages, nextId, now, isAILoading>>
       \/ NewMessageFailed(i, "aiError")
       \/ NewMessageFailed(i, "aiEmpty")
    /\ UNCHANGED <<dbSessions, dbMessages, chatSessions, activeChatSessionId,
                   hasMoreMessages, isSubmittingUserMessage, selectedDocumentIds,
                   chatSessionsLoadedCount, hasMoreChatSessions, msgLoads, olderLoads,
                   regens, olderCalls, submits, regenCalls>>
    /\ UNCHANGED <<audioVars, sessVars, ctxVars, delVars, editorVars>>

\* the store executes the insert of the assistant row, or refuses it
getAIResponseSaveAI(i) ==
    /\ i \in 1..Len(subs)
    /\ subs[i].pc = "saveAI"
    /\ \/ /\ dbMessages' = dbMessages \cup {AssistantRow(subs[i], nextId, now)}
          /\ subs' = [subs EXCEPT ![i].pc = "aiSaved", ![i].msgId = nextId,
                                  ![i].msgTs = now]
          /\ nextId' = nextId + 1
          /\ now' = now + 1
       \/ /\ subs' = [subs EXCEPT ![i].pc = "aiSaveFailed"]
          /\ UNCHANGED <<dbMessages, nextId, now>>
    /\ lastOp' = Op("getAIResponseSaveAI", subs[i].sid)
    /\ UNCHANGED <<dbSessions, chatSessions, activeChatSessionId, chatMessages,
                   hasMoreMessages, isAILoading, isSubmittingUserMessage,
                   selectedDocumentIds, chatSessionsLoadedCount, hasMoreChatSessions,
                   msgLoads, olderLoads, regens, olderCalls, submits, regenCalls>>
    /\ UNCHANGED <<audioVars, sessVars, ctxVars, delVars, editorVars>>

\* _getAIResponse after the insert: the assistant message is appended and the
\* session update is sent; or the insert failed and the catch runs
getAIResponseAISaved(i) ==
    /\ i \in 1..Len(subs)
    /\ \/ /\ subs[i].pc = "aiSaved"
          /\ chatMessages' = Append(chatMessages,
                 FormatMessage(AssistantRow(subs[i], subs[i].msgId, subs[i].msgTs)))
          /\ subs' = [subs EXCEPT ![i].pc = "updateSession"]
          /\ lastOp' = OpCall("getAIResponse:appended", subs[i].sid, subs[i])
          /\ UNCHANGED <<nextId, now, isAILoading>>
       \/ /\ subs[i].pc = "aiSaveFailed"
          /\ NewMessageFailed(i, "aiSaveFailed")
    /\ UNCHANGED <<dbSessions, dbMessages, chatSessions, activeChatSessionId,
                   hasMoreMessages, isSubmittingUserMessage, selectedDocumentIds,
                   chatSessionsLoadedCount, hasMoreChatSessions, msgLoads, olderLoads,
                   regens, olderCalls, submits, regenCalls>>
    /\ UNCHANGED <<audioVars, sessVars, ctxVars, delVars, editorVars>>

\* _getAIResponse, success of either mode: chat_sessions is updated (an error
\* is only logged), the local entry is refreshed and the list sorted; finally
SessionTouched(c, ok) ==
    /\ dbSessions' = IF ok
                     THEN TouchSessionRows(dbSessions, c.sid, now, c.docs)
                     ELSE dbSessions
    /\ chatSessions' = TouchSession(chatSessions, c.sid, now, c.docs)
    /\ selectedDocumentIds' =
           SelectionEffect(activeChatSessionId, chatSessions', selectedDocumentIds)
    /\ now' = now + 1
    /\ isAILoading' = FALSE

getAIResponseUpdateSession(i) ==
    /\ i \in 1..Len(subs)
    /\ subs[i].pc = "updateSession"
    /\ \E ok \in BOOLEAN :
          /\ SessionTouched(subs[i], ok)
          /\ subs' = [subs EXCEPT ![i].pc = "updateDocs", ![i].aiOk = TRUE,
                                  ![i].dbErr = ~ok]
    /\ lastOp' = OpCall("getAIResponse:done", subs[i].sid, subs[i])
    /\ UNCHANGED <<dbMessages, activeChatSessionId, chatMessages, hasMoreMessages,
                   isSubmittingUserMessage, chatSessionsLoadedCount,
                   hasMoreChatSessions, msgLoads, olderLoads, regens, nextId,
                   olderCalls, submits, regenCalls>>
    /\ UNCHANGED <<audioVars, sessVars, ctxVars, delVars, editorVars>>

\* handleSubmit after _getAIResponse: document_ids of the session is written
\* (an error is only logged); finally
handleSubmitUpdateDocs(i) ==
    /\ i \in 1..Len(subs)
    /\ subs[i].pc = "updateDocs"
    /\ \E ok \in BOOLEAN :
          /\ dbSessions' = IF ok
                           THEN SetSessionDocs(dbSessions, subs[i].sid, subs[i].docs)
                           ELSE dbSessions
          /\ lastOp' = OpCall(IF subs[i].aiOk THEN "handleSubmit:done"
                                              ELSE "handleSubmit:aiFailed",
                              subs[i].sid, [subs[i] EXCEPT !.dbErr = @ \/ ~ok])
    /\ isSubmittingUserMessage' = FALSE
    /\ subs' = RemoveAt(subs, i)
    /\ UNCHANGED <<dbMessages, chatSessions, activeChatSessionId, chatMessages,
                   hasMoreMessages, isAILoading, selectedDocumentIds,
                   chatSessionsLoadedCount, hasMoreChatSessions, msgLoads, olderLoads,
                   regens, nextId, now, olderCalls, submits, regenCalls>>
    /\ UNCHANGED <<audioVars, sessVars, ctxVars, delVars, editorVars>>

(***************************************************************************)
(* AI Response Orchestrator: regenerate and retry (update mode)            *)
(***************************************************************************)
IsUser(m) == m.role = "user"

IsAssistant(m) == m.role = "assistant"

\* slice().reverse().find(...): the last of the indices S that satisfy the
\* test, or 0
LastIndex(S) == IF S = {} THEN 0 ELSE CHOOSE k \in S : \A m \in S : m <= k

UserIndices(buf) == {k \in 1..Len(buf) : IsUser(buf[k])}

AssistantIndices(buf) == {k \in 1..Len(buf) : IsAssistant(buf[k])}

\* a map that rebuilds the target instead of spreading it
SetAssistantRebuilt(buf, id, text, t, err) ==
    [k \in 1..Len(buf) |->
        IF buf[k].id = id
        THEN [buf[k] EXCEPT !.content = text, !.timestamp = t, !.isError = err,
                            !.originalUserMessageContent = NoOriginal]
        ELSE buf[k]]

\* prev.map(msg => msg.id === id ? {...msg, content, timestamp, isError} : msg)
SetAssistant(buf, id, text, t, err) ==
    [k \in 1..Len(buf) |->
        IF buf[k].id = id
        THEN [buf[k] EXCEPT !.content = text, !.timestamp = t, !.isError = err]
        ELSE buf[k]]

\* the call of _getAIResponse with aiMessageIdToUpdate = target; src is the
\* user message whose attachments are passed on
NewRegen(kind, target, text, src) ==
    [pc |-> "aiCall", kind |-> kind, target |-> target, sid |-> activeChatSessionId,
     text |-> text, docs |-> src.attachedDocumentIds, notes |-> src.attachedNoteIds,
     ts |-> 0]

\* the target shows "AI is thinking...", then _getAIResponse runs up to the
\* invocation of gemini-chat
StartUpdate(kind, target, text, src) ==
    /\ chatMessages' = SetAssistant(chatMessages, target, Thinking, now, FALSE)
    /\ now' = now + 1
    /\ isAILoading' = TRUE
    /\ regens' = Append(regens, NewRegen(kind, target, text, src))
    /\ regenCalls' = regenCalls + 1
    /\ lastOp' = OpCall(kind, target, NewRegen(kind, target, text, src))
    /\ UNCHANGED <<dbSessions, dbMessages, chatSessions, activeChatSessionId,
                   hasMoreMessages, isSubmittingUserMessage, selectedDocumentIds,
                   chatSessionsLoadedCount, hasMoreChatSessions, msgLoads, olderLoads,
                   subs, nextId, olderCalls, submits>>
    /\ UNCHANGED <<audioVars, sessVars, ctxVars, delVars, editorVars>>

\* the Regenerate button (shown while the last message is the assistant's and
\* isLoading is false) and handleRegenerateResponse
handleRegenerateResponse ==
    /\ activeChatSessionId # NoSession
    /\ regenCalls < MaxRegens
    /\ Len(chatMessages) > 0
    /\ IsAssistant(chatMessages[Len(chatMessages)])
    /\ ~isAILoading
    /\ LET u == LastIndex(UserIndices(chatMessages))
           a == LastIndex(AssistantIndices(chatMessages))
       IN  /\ u # 0
           /\ StartUpdate("handleRegenerateResponse", chatMessages[a].id,
                          chatMessages[u].content, chatMessages[u])

\* the Retry button of the failed assistant message at index k (never
\* disabled) and handleRetryFailedMessage
handleRetryFailedMessage(k) ==
    /\ activeChatSessionId # NoSession
    /\ regenCalls < MaxRegens
    /\ k \in 1..Len(chatMessages)
    /\ IsAssistant(chatMessages[k])
    /\ chatMessages[k].isError
    /\ LET p == LastIndex({m \in UserIndices(chatMessages) : m < k})
       IN  /\ p # 0
           /\ LET text == chatMessages[p].content
                  u == LastIndex({m \in UserIndices(chatMessages) :
                                     chatMessages[m].content = text})
              IN  StartUpdate("handleRetryFailedMessage", chatMessages[k].id,
                              text, chatMessages[u])

\* catch and finally of _getAIResponse in update mode
UpdateFailed(j, why) ==
    /\ chatMessages' = SetAssistant(chatMessages, regens[j].target, FailedRegenerate,
                                    now, TRUE)
    /\ now' = now + 1
    /\ isAILoading' = FALSE
    /\ regens' = RemoveAt(regens, j)
    /\ lastOp' = OpCall("getAIResponseUpdate:failed", regens[j].target,
                        [regens[j] EXCEPT !.pc = why])

\* gemini-chat answers a regenerate / retry: a response (the update of the
\* row is sent to the store), an error, or an empty response
getAIResponseUpdateInvoked(j) ==
    /\ j \in 1..Len(regens)
    /\ regens[j].pc = "aiCall"
    /\ \/ /\ regens' = [regens EXCEPT ![j].pc = "saveUpdate", ![j].ts = now]
          /\ now' = now + 1
          /\ lastOp' = Op("getAIResponseUpdate:response", regens[j].target)
          /\ UNCHANGED <<chatMessages, isAILoading>>
       \/ UpdateFailed(j, "aiError")
       \/ UpdateFailed(j, "aiEmpty")
    /\ UNCHANGED <<dbSessions, dbMessages, chatSessions, activeChatSessionId,
                   hasMoreMessages, isSubmittingUserMessage, selectedDocumentIds,
                   chatSessionsLoadedCount, hasMoreChatSessions, msgLoads, olderLoads,
                   subs, nextId, olderCalls, submits, regenCalls>>
    /\ UNCHANGED <<audioVars, sessVars, ctxVars, delVars, editorVars>>

\* .update({content, timestamp, is_error: false}).eq('id', target)
\*     .eq('session_id', sid) on chat_messages
UpdateMessageRows(rows, c) ==
    {IF r.id = c.target /\ r.session_id = c.sid
     THEN [r EXCEPT !.content = AIResponse, !.timestamp = c.ts, !.is_error = FALSE]
     ELSE r : r \in rows}

\* the store executes the update (rows that match, possibly none), or refuses
getAIResponseSaveUpdate(j) ==
    /\ j \in 1..Len(regens)
    /\ regens[j].pc = "saveUpdate"
    /\ \/ /\ dbMessages' = UpdateMessageRows(dbMessages, regens[j])
          /\ regens' = [regens EXCEPT ![j].pc = "updateSaved"]
       \/ /\ regens' = [regens EXCEPT ![j].pc = "updateFailed"]
          /\ UNCHANGED dbMessages
    /\ lastOp' = Op("getAIResponseSaveUpdate", regens[j].target)
    /\ UNCHANGED <<dbSessions, chatSessions, activeChatSessionId, chatMessages,
                   hasMoreMessages, isAILoading, isSubmittingUserMessage,
                   selectedDocumentIds, chatSessionsLoadedCount, hasMoreChatSessions,
                   msgLoads, olderLoads, subs, nextId, now, olderCalls, submits,
                   regenCalls>>
    /\ UNCHANGED <<audioVars, sessVars, ctxVars, delVars, editorVars>>

\* _getAIResponse after the update: the target shows the response and the
\* session update is sent; or the update failed and the catch runs
getAIResponseUpdateSaved(j) ==
    /\ j \in 1..Len(regens)
    /\ \/ /\ regens[j].pc = "updateSaved"
          /\ chatMessages' = SetAssistant(chatMessages, regens[j].target, AIResponse,
                                          now, FALSE)
          /\ now' = now + 1
          /\ regens' = [regens EXCEPT ![j].pc = "updateSession"]
          /\ lastOp' = OpCall("getAIResponseUpdate:saved", regens[j].target, regens[j])
          /\ UNCHANGED isAILoading
       \/ /\ regens[j].pc = "updateFailed"
          /\ UpdateFailed(j, "updateFailed")
    /\ UNCHANGED <<dbSessions, dbMessages, chatSessions, activeChatSessionId,
                   hasMoreMessages, isSubmittingUserMessage, selectedDocumentIds,
                   chatSessionsLoadedCount, hasMoreChatSessions, msgLoads, olderLoads,
                   subs, nextId, olderCalls, submits, regenCalls>>
    /\ UNCHANGED <<audioVars, sessVars, ctxVars, delVars, editorVars>>

\* the session update of a regenerate / retry; finally
getAIResponseUpdateDone(j) ==
    /\ j \in 1..Len(regens)
    /\ regens[j].pc = "updateSession"
    /\ \E ok \in BOOLEAN : SessionTouched(regens[j], ok)
    /\ regens' = RemoveAt(regens, j)
    /\ lastOp' = OpCall("getAIResponseUpdate:done", regens[j].target, regens[j])
    /\ UNCHANGED <<dbMessages, activeChatSessionId, chatMessages, hasMoreMessages,
                   isSubmittingUserMessage, chatSessionsLoadedCount,
                   hasMoreChatSessions, msgLoads, olderLoads, subs, nextId,
                   olderCalls, submits, regenCalls>>
    /\ UNCHANGED <<audioVars, sessVars, ctxVars, delVars, editorVars>>

(***************************************************************************)
(* handleDeleteMessage                                                     *)
(***************************************************************************)
\* prevMessages.filter(msg => msg.id !== messageId)
WithoutMessage(buf, id) == SelectIds(buf, {buf[k].id : k \in 1..Len(buf)} \ {id})

\* the answer of the store reaches handleDeleteMessage: toasts only
DeleteAnswered(i, ok) == UNCHANGED chatMessages

\* the delete button of message k, confirmed: handleDeleteMessage removes the
\* message from the buffer and sends the delete to the store
handleDeleteMessage(k) ==
    /\ user
    /\ activeChatSessionId # NoSession
    /\ deletes < MaxDeletes
    /\ k \in 1..Len(chatMessages)
    /\ chatMessages' = WithoutMessage(chatMessages, chatMessages[k].id)
    /\ dels' = Append(dels, [mid |-> chatMessages[k].id, sid |-> activeChatSessionId])
    /\ deletes' = deletes + 1
    /\ lastOp' = OpCall("handleDeleteMessage", chatMessages[k].id,
                        [pc |-> "delete", mid |-> chatMessages[k].id,
                         sid |-> activeChatSessionId])
    /\ UNCHANGED <<dbSessions, dbMessages, chatSessions, activeChatSessionId,
                   hasMoreMessages, isAILoading, isSubmittingUserMessage,
                   selectedDocumentIds, chatSessionsLoadedCount, hasMoreChatSessions,
                   msgLoads, olderLoads, subs, regens, nextId, now, olderCalls, submits,
                   regenCalls>>
    /\ UNCHANGED <<audioVars, sessVars, ctxVars, editorVars>>

\* .delete().eq('id', messageId).eq('session_id', sid).eq('user_id', user.id):
\* the store deletes the rows that match, or refuses; handleDeleteMessage
\* shows a toast and returns
handleDeleteMessageDone(i) ==
    /\ i \in 1..Len(dels)
    /\ \E ok \in BOOLEAN :
          /\ dbMessages' = IF ok
                           THEN {r \in dbMessages :
                                    ~(r.id = dels[i].mid /\ r.session_id = dels[i].sid)}
                           ELSE dbMessages
          /\ DeleteAnswered(i, ok)
          /\ lastOp' = OpCall(IF ok THEN "handleDeleteMessage:done"
                                    ELSE "handleDeleteMessage:failed",
                              dels[i].mid,
                              [pc |-> "none", mid |-> dels[i].mid, sid |-> dels[i].sid])
    /\ dels' = RemoveAt(dels, i)
    /\ UNCHANGED <<dbSessions, chatSessions, activeChatSessionId,
                   hasMoreMessages, isAILoading, isSubmittingUserMessage,
                   selectedDocumentIds, chatSessionsLoadedCount, hasMoreChatSessions,
                   msgLoads, olderLoads, subs, regens, nextId, now, olderCalls, submits,
                   regenCalls, deletes>>
    /\ UNCHANGED <<audioVars, sessVars, ctxVars, editorVars>>

(***************************************************************************)
(* NoteEditor: audio upload, job start and the polling effect              *)
(***************************************************************************)
Kinds == {"note", "summary", "translate"}

NoAudioOp == [upload |-> FALSE, start |-> "none"]

\* the disabled condition of the buttons of the audio options panel
AudioBusy ==
    isGeneratingAudioNote \/ isGeneratingAudioSummary \/ isTranslatingAudio
        \/ isProcessingAudio

\* {uploadedAudioDetails && isAudioOptionsVisible && ...}
OptionsShown == uploadedAudioDetails /\ isAudioOptionsVisible

\* setIsGeneratingAudioNote / setIsGeneratingAudioSummary / setIsTranslatingAudio
SetGenerating(kind, v) ==
    /\ isGeneratingAudioNote' = IF kind = "note" THEN v ELSE isGeneratingAudioNote
    /\ isGeneratingAudioSummary' =
           IF kind = "summary" THEN v ELSE isGeneratingAudioSummary
    /\ isTranslatingAudio' = IF kind = "translate" THEN v ELSE isTranslatingAudio

\* pollJobStatus up to its await: the status read of job j is in flight
pollJobStatus(ps, j) == Append(ps, [job |-> j])

\* handleAudioFileSelect up to the upload
handleAudioFileSelect ==
    /\ mounted
    /\ ~audioOp.upload
    /\ isProcessingAudio' = TRUE
    /\ audioOp' = [audioOp EXCEPT !.upload = TRUE]
    /\ lastOp' = Op("handleAudioFileSelect", audioProcessingJobId)
    /\ UNCHANGED <<audioProcessingJobId, isGeneratingAudioNote, isGeneratingAudioSummary,
                   isTranslatingAudio, uploadedAudioDetails, isAudioOptionsVisible,
                   pollInterval, polls, jobStatus, jobsStarted, mounted, noteVersion,
                   terminalSeen, noteUpdates>>
    /\ UNCHANGED <<chatVars, sessVars, ctxVars, delVars, editorVars>>

\* handleAudioFileSelect after the upload: the options panel opens on
\* success; finally isProcessingAudio is reset
handleAudioFileSelectDone ==
    /\ mounted
    /\ audioOp.upload
    /\ \/ /\ uploadedAudioDetails' = TRUE
          /\ isAudioOptionsVisible' = TRUE
       \/ UNCHANGED <<uploadedAudioDetails, isAudioOptionsVisible>>
    /\ isProcessingAudio' = FALSE
    /\ audioOp' = [audioOp EXCEPT !.upload = FALSE]
    /\ lastOp' = Op("handleAudioFileSelectDone", audioProcessingJobId)
    /\ UNCHANGED <<audioProcessingJobId, isGeneratingAudioNote, isGeneratingAudioSummary,
                   isTranslatingAudio, pollInterval, polls, jobStatus, jobsStarted,
                   mounted, noteVersion, terminalSeen, noteUpdates>>
    /\ UNCHANGED <<chatVars, sessVars, ctxVars, delVars, editorVars>>

\* handleGenerateNoteFromAudio / handleGenerateSummaryFromAudio /
\* handleTranslateAudio up to the invocation of process-audio
handleGenerateFromAudio(kind) ==
    /\ mounted
    /\ OptionsShown
    /\ ~AudioBusy
    /\ audioOp.start = "none"
    /\ jobsStarted < MaxJobs
    /\ SetGenerating(kind, TRUE)
    /\ audioOp' = [audioOp EXCEPT !.start = kind]
    /\ lastOp' = Op("handleGenerateFromAudio", audioProcessingJobId)
    /\ UNCHANGED <<audioProcessingJobId, isProcessingAudio, uploadedAudioDetails,
                   isAudioOptionsVisible, pollInterval, polls, jobStatus, jobsStarted,
                   mounted, noteVersion, terminalSeen, noteUpdates>>
    /\ UNCHANGED <<chatVars, sessVars, ctxVars, delVars, editorVars>>

\* process-audio answers.  With a job id: setAudioProcessingJobId(job_id),
\* setIsProcessingAudio(true), and the polling effect of the commit replaces
\* the interval and makes the immediate first check.  Finally the flag of the
\* handler is reset.
handleGenerateFromAudioDone ==
    /\ mounted
    /\ audioOp.start # "none"
    /\ \/ /\ Len(polls) < MaxPolls
          /\ jobsStarted' = jobsStarted + 1
          /\ jobStatus' = [jobStatus EXCEPT ![jobsStarted'] = "processing"]
          /\ audioProcessingJobId' = jobsStarted'
          /\ isProcessingAudio' = TRUE
          /\ pollInterval' = jobsStarted'
          /\ polls' = pollJobStatus(polls, jobsStarted')
          /\ lastOp' = Op("jobStarted", jobsStarted')
       \/ /\ lastOp' = Op("jobStartFailed", audioProcessingJobId)
          /\ UNCHANGED <<jobsStarted, jobStatus, audioProcessingJobId,
                         isProcessingAudio, pollInterval, polls>>
    /\ SetGenerating(audioOp.start, FALSE)
    /\ audioOp' = [audioOp EXCEPT !.start = "none"]
    /\ UNCHANGED <<uploadedAudioDetails, isAudioOptionsVisible, mounted, noteVersion,
                   terminalSeen, noteUpdates>>
    /\ UNCHANGED <<chatVars, sessVars, ctxVars, delVars, editorVars>>

\* a tick of setInterval(pollJobStatus, 5000)
pollTick ==
    /\ mounted
    /\ pollInterval # NoJob
    /\ Len(polls) < MaxPolls
    /\ polls' = pollJobStatus(polls, pollInterval)
    /\ lastOp' = Op("tick", pollInterval)
    /\ UNCHANGED <<audioProcessingJobId, isProcessingAudio, isGeneratingAudioNote,
                   isGeneratingAudioSummary, isTranslatingAudio, uploadedAudioDetails,
                   isAudioOptionsVisible, pollInterval, audioOp, jobStatus, jobsStarted,
                   mounted, noteVersion, terminalSeen, noteUpdates>>
    /\ UNCHANGED <<chatVars, sessVars, ctxVars, delVars, editorVars>>

\* the audio processor finishes job j
jobFinishes(j) ==
    /\ j \in 1..jobsStarted
    /\ jobStatus[j] = "processing"
    /\ \E st \in {"completed", "error"} : jobStatus' = [jobStatus EXCEPT ![j] = st]
    /\ lastOp' = Op("jobFinishes", j)
    /\ UNCHANGED <<audioProcessingJobId, isProcessingAudio, isGeneratingAudioNote,
                   isGeneratingAudioSummary, isTranslatingAudio, uploadedAudioDetails,
                   isAudioOptionsVisible, pollInterval, polls, audioOp, jobsStarted,
                   mounted, noteVersion, terminalSeen, noteUpdates>>
    /\ UNCHANGED <<chatVars, sessVars, ctxVars, delVars, editorVars>>

\* setContent(text); setDraftContent(text): a draftContent that changes makes
\* the debounce effect clear its timer and set a new one
SetBoth(text) ==
    /\ content' = text
    /\ draftContent' = text
    /\ debounce' = IF draftContent # text THEN Armed(text) ELSE debounce
    /\ UNCHANGED <<typed, saved>>

\* what the completed, error and catch branches of pollJobStatus do to the
\* state: the job id and the flags are reset, the panel closes, and
\* clearInterval(pollInterval) with the cleanup of the polling effect (the job
\* id changed) leaves no interval
StopPolling ==
    /\ audioProcessingJobId' = NoJob
    /\ isProcessingAudio' = FALSE
    /\ isGeneratingAudioNote' = FALSE
    /\ isGeneratingAudioSummary' = FALSE
    /\ isTranslatingAudio' = FALSE
    /\ isAudioOptionsVisible' = FALSE
    /\ pollInterval' = NoJob

\* a branch that writes no state
KeepPolling ==
    UNCHANGED <<audioProcessingJobId, isProcessingAudio, isGeneratingAudioNote,
                isGeneratingAudioSummary, isTranslatingAudio, isAudioOptionsVisible,
                pollInterval>>

\* a completed branch that forgets to stop
PollCompletedKeepsPolling(j) ==
    /\ noteUpdates' = [noteUpdates EXCEPT ![j] = @ + 1]
    /\ terminalSeen' = terminalSeen \cup {[job |-> j, kind |-> "completed"]}
    /\ KeepPolling
    /\ IF mounted THEN SetBoth(Transcript) ELSE UNCHANGED editorVars
    /\ lastOp' = Op("poll:completed", j)

\* status === 'completed': onNoteUpdate with the transcript, then the reset.
\* The setters of an unmounted component do nothing.
PollCompleted(j) ==
    /\ noteUpdates' = [noteUpdates EXCEPT ![j] = @ + 1]
    /\ terminalSeen' = terminalSeen \cup {[job |-> j, kind |-> "completed"]}
    /\ IF mounted THEN StopPolling ELSE KeepPolling
    /\ IF mounted THEN SetBoth(Transcript) ELSE UNCHANGED editorVars
    /\ lastOp' = Op("poll:completed", j)

\* status === 'error'
PollError(j) ==
    /\ terminalSeen' = terminalSeen \cup {[job |-> j, kind |-> "error"]}
    /\ IF mounted THEN StopPolling ELSE KeepPolling
    /\ lastOp' = Op("poll:error", j)
    /\ UNCHANGED noteUpdates
    /\ UNCHANGED editorVars

\* a processing branch that stops the interval
PollProcessingStops(j) ==
    /\ audioProcessingJobId' = NoJob
    /\ pollInterval' = NoJob
    /\ lastOp' = Op("poll:processing", j)
    /\ UNCHANGED <<isProcessingAudio, isGeneratingAudioNote, isGeneratingAudioSummary,
                   isTranslatingAudio, isAudioOptionsVisible, terminalSeen, noteUpdates>>
    /\ UNCHANGED editorVars

\* status === 'processing': a toast only
PollProcessing(j) ==
    /\ KeepPolling
    /\ lastOp' = Op("poll:processing", j)
    /\ UNCHANGED <<terminalSeen, noteUpdates>>
    /\ UNCHANGED editorVars

\* a catch that leaves the job to the next tick
PollCatchRetries(j) ==
    /\ terminalSeen' = terminalSeen \cup {[job |-> j, kind |-> "failed"]}
    /\ KeepPolling
    /\ lastOp' = Op("poll:failed", j)
    /\ UNCHANGED noteUpdates
    /\ UNCHANGED editorVars

\* the read failed (error, or .single() found no row): the catch
PollCatch(j) ==
    /\ terminalSeen' = terminalSeen \cup {[job |-> j, kind |-> "failed"]}
    /\ IF mounted THEN StopPolling ELSE KeepPolling
    /\ lastOp' = Op("poll:failed", j)
    /\ UNCHANGED noteUpdates
    /\ UNCHANGED editorVars

\* pollJobStatus after its await, for the read in flight at index i
pollJobStatusReturn(i) ==
    /\ i \in 1..Len(polls)
    /\ LET j == polls[i].job
       IN  \/ jobStatus[j] = "completed" /\ PollCompleted(j)
           \/ jobStatus[j] = "error" /\ PollError(j)
           \/ jobStatus[j] = "processing" /\ PollProcessing(j)
           \/ PollCatch(j)
    /\ polls' = RemoveAt(polls, i)
    /\ UNCHANGED <<uploadedAudioDetails, audioOp, jobStatus, jobsStarted, mounted,
                   noteVersion>>
    /\ UNCHANGED <<chatVars, sessVars, ctxVars, delVars>>

\* the parent passes another note object.  useEffect([note]) closes the panel
\* and resets the job id (the flags stay); the polling effect, which has note
\* among its dependencies, runs in the same commit with the job id of the
\* render, so it makes one more immediate check before its cleanup.
noteChange(c) ==
    /\ mounted
    /\ noteVersion < MaxNoteVersions
    /\ audioProcessingJobId = NoJob \/ Len(polls) < MaxPolls
    /\ noteVersion' = noteVersion + 1
    /\ uploadedAudioDetails' = FALSE
    /\ isAudioOptionsVisible' = FALSE
    /\ audioProcessingJobId' = NoJob
    /\ pollInterval' = NoJob
    /\ polls' = IF audioProcessingJobId # NoJob
                THEN pollJobStatus(polls, audioProcessingJobId)
                ELSE polls
    /\ lastOp' = Op("noteChange", audioProcessingJobId)
    /\ UNCHANGED <<isProcessingAudio, isGeneratingAudioNote, isGeneratingAudioSummary,
                   isTranslatingAudio, audioOp, jobStatus, jobsStarted, mounted,
                   terminalSeen, noteUpdates>>
    /\ content' = c
    /\ draftContent' = c
    /\ debounce' = IF draftContent # c THEN Armed(c) ELSE debounce
    /\ typed' = NoText
    /\ UNCHANGED saved
    /\ UNCHANGED <<chatVars, sessVars, ctxVars, delVars>>

\* handleSave: onNoteUpdate({...note, content, ...}); the editor's own state
\* is not written
handleSave ==
    /\ mounted
    /\ saved' = content
    /\ lastOp' = Op("handleSave", audioProcessingJobId)
    /\ UNCHANGED <<content, draftContent, debounce, typed>>
    /\ UNCHANGED audioVars
    /\ UNCHANGED <<chatVars, sessVars, ctxVars, delVars>>

\* the Textarea of the editor: onChange={(e) => setContent(e.target.value)}
onChange(text) ==
    /\ mounted
    /\ text # content
    /\ content' = text
    /\ typed' = text
    /\ lastOp' = Op("onChange", audioProcessingJobId)
    /\ UNCHANGED <<draftContent, debounce, saved>>
    /\ UNCHANGED audioVars
    /\ UNCHANGED <<chatVars, sessVars, ctxVars, delVars>>

\* the timer of the debounce effect fires 500 ms after it was set:
\* setContent(draftContent), with the draftContent of its closure
debounceFires ==
    /\ mounted
    /\ debounce.armed
    /\ content' = debounce.value
    /\ debounce' = Disarmed
    /\ lastOp' = Op("debounce", audioProcessingJobId)
    /\ UNCHANGED <<draftContent, typed, saved>>
    /\ UNCHANGED audioVars
    /\ UNCHANGED <<chatVars, sessVars, ctxVars, delVars>>

\* the Clear Audio button of the options panel
handleClearAudioProcessing ==
    /\ mounted
    /\ OptionsShown
    /\ ~AudioBusy
    /\ uploadedAudioDetails' = FALSE
    /\ StopPolling
    /\ lastOp' = Op("handleClearAudioProcessing", audioProcessingJobId)
    /\ UNCHANGED <<polls, audioOp, jobStatus, jobsStarted, mounted, noteVersion,
                   terminalSeen, noteUpdates>>
    /\ UNCHANGED <<chatVars, sessVars, ctxVars, delVars, editorVars>>

\* the NoteEditor unmounts: the cleanup of the polling effect clears the
\* interval; reads in flight still return
unmount ==
    /\ mounted
    /\ mounted' = FALSE
    /\ pollInterval' = NoJob
    /\ audioOp' = NoAudioOp
    /\ lastOp' = Op("unmount", audioProcessingJobId)
    /\ UNCHANGED <<audioProcessingJobId, isProcessingAudio, isGeneratingAudioNote,
                   isGeneratingAudioSummary, isTranslatingAudio, uploadedAudioDetails,
                   isAudioOptionsVisible, polls, jobStatus, jobsStarted, noteVersion,
                   terminalSeen, noteUpdates>>
    /\ debounce' = Disarmed
    /\ UNCHANGED <<content, draftContent, typed, saved>>
    /\ UNCHANGED <<chatVars, sessVars, ctxVars, delVars>>

(***************************************************************************)
(* Context Builder: buildRichContext, and the request of _getAIResponse    *)
(*                                                                         *)
(* A text is the sequence of its pieces.  A piece is a literal line or the *)
(* value of one field of one document or note: the owner, the field, the   *)
(* number of characters it contributes and whether it ends in the          *)
(* ellipsis.  The string fields of documents and notes are given by their  *)
(* lengths, 0 for an empty (falsy) one.                                    *)
(***************************************************************************)
Literal(label) == [label |-> label, owner |-> "", field |-> "", len |-> 0, cut |-> FALSE]

Piece(label, owner, field, len) ==
    [label |-> label, owner |-> owner, field |-> field, len |-> len, cut |-> FALSE]

\* a truncation that appends the ellipsis to the whole text
TruncateKeepsAll(label, owner, field, len, limit) ==
    [label |-> label, owner |-> owner, field |-> field,
     len |-> IF len > limit THEN len + ELLIPSIS_LENGTH ELSE len,
     cut |-> len > limit]

\* text.length > limit ? text.substring(0, limit) + '...' : text
Truncate(label, owner, field, len, limit) ==
    [label |-> label, owner |-> owner, field |-> field,
     len |-> IF len > limit THEN limit + ELLIPSIS_LENGTH ELSE len,
     cut |-> len > limit]

\* the lines of one document
DocLines(doc) ==
    <<Piece("Title", doc.id, "title", doc.title),
      Piece("File", doc.id, "file_name", doc.file_name)>>
    \o (IF doc.type = "image" THEN <<Literal("Type: Image")>>
        ELSE IF doc.type = "text" THEN <<Literal("Type: Text Document")>>
        ELSE <<>>)
    \o (IF doc.type = "image" /\ doc.content_extracted > 0
        THEN <<Truncate("Content (Image Description)", doc.id, "content_extracted",
                        doc.content_extracted, DOC_CONTENT_LIMIT)>>
        ELSE IF doc.content_extracted > 0
        THEN <<Truncate("Content", doc.id, "content_extracted",
                        doc.content_extracted, DOC_CONTENT_LIMIT)>>
        ELSE IF doc.type = "image" /\ doc.processing_status # "completed"
        THEN <<Piece("Content: Image processing", doc.id, "processing_status",
                     Len(doc.processing_status))>>
        ELSE IF doc.type = "image"
        THEN <<Literal("Content: Image analysis completed, no text")>>
        ELSE <<Literal("Content: No content extracted or available.")>>)
    \o <<Literal("")>>

\* the lines of one note
NoteLines(note) ==
    <<Piece("Title", note.id, "title", note.title),
      Piece("Category", note.id, "category", note.category)>>
    \o (IF note.content > 0
        THEN <<Truncate("Content", note.id, "content", note.content, NOTE_CONTENT_LIMIT)>>
        ELSE <<>>)
    \o (IF note.aiSummary > 0
        THEN <<Piece("AI Summary", note.id, "aiSummary", note.aiSummary)>>
        ELSE <<>>)
    \o (IF note.tags > 0 THEN <<Piece("Tags", note.id, "tags", note.tags)>> ELSE <<>>)
    \o <<Literal("")>>

\* all.filter(x => ids.includes(x.id)): the order of the collection
RECURSIVE Selected(_, _)
Selected(all, ids) ==
    IF all = <<>> THEN <<>>
    ELSE IF Head(all).id \in ids THEN <<Head(all)>> \o Selected(Tail(all), ids)
         ELSE Selected(Tail(all), ids)

RECURSIVE AllDocLines(_)
AllDocLines(docs) ==
    IF docs = <<>> THEN <<>> ELSE DocLines(Head(docs)) \o AllDocLines(Tail(docs))

RECURSIVE AllNoteLines(_)
AllNoteLines(ns) ==
    IF ns = <<>> THEN <<>> ELSE NoteLines(Head(ns)) \o AllNoteLines(Tail(ns))

buildRichContext(documentIdsToInclude, noteIdsToInclude, allDocuments, allNotes) ==
    (IF Selected(allDocuments, documentIdsToInclude) # <<>>
     THEN <<Literal("DOCUMENTS:")>>
              \o AllDocLines(Selected(allDocuments, documentIdsToInclude))
     ELSE <<>>)
    \o (IF Selected(allNotes, noteIdsToInclude) # <<>>
        THEN <<Literal("NOTES:")>> \o AllNoteLines(Selected(allNotes, noteIdsToInclude))
        ELSE <<>>)

\* a part {text: ...} of a turn of chatHistory: the text of a message, or the
\* context rebuilt for its attachments
TextPart(text) == [text |-> text, context |-> <<>>]

ContextPart(ctx) == [text |-> "Context from previous attachments:", context |-> ctx]

\* historicalMessages.forEach: the turn of one buffered message
HistoryTurn(msg) ==
    IF msg.role = "user"
    THEN [role |-> "user",
          parts |-> <<TextPart(msg.content)>>
              \o (IF (msg.attachedDocumentIds # {} \/ msg.attachedNoteIds # {})
                     /\ buildRichContext(msg.attachedDocumentIds, msg.attachedNoteIds,
                                         documents, notes) # <<>>
                  THEN <<ContextPart(buildRichContext(msg.attachedDocumentIds,
                                         msg.attachedNoteIds, documents, notes))>>
                  ELSE <<>>)]
    ELSE [role |-> "model", parts |-> <<TextPart(msg.content)>>]

RECURSIVE HistoryTurns(_, _)
HistoryTurns(buf, aiMessageIdToUpdate) ==
    IF buf = <<>> THEN <<>>
    ELSE IF aiMessageIdToUpdate # 0 /\ Head(buf).id = aiMessageIdToUpdate
         THEN HistoryTurns(Tail(buf), aiMessageIdToUpdate)
         ELSE <<HistoryTurn(Head(buf))>> \o HistoryTurns(Tail(buf), aiMessageIdToUpdate)

\* the chatHistory _getAIResponse sends: the chatMessages of its closure,
\* then the current turn, which holds userMessageContent (no image here)
BuildChatHistory(buf, userMessageContent, aiMessageIdToUpdate) ==
    HistoryTurns(buf, aiMessageIdToUpdate)
    \o <<[role |-> "user",
          parts |-> IF userMessageContent # "" THEN <<TextPart(userMessageContent)>>
                                               ELSE <<>>]>>

\* buildRichContext called for a selection of documents and notes
buildRichContextCall(docIds, noteIds) ==
    /\ context' = buildRichContext(docIds, noteIds, documents, notes)
    /\ lastOp' = OpCall("buildRichContext", 0, [pc |-> "none", docs |-> docIds,
                                                notes |-> noteIds])
    /\ UNCHANGED <<documents, notes, chatHistory>>
    /\ UNCHANGED <<chatVars, audioVars, sessVars, delVars, editorVars>>

\* _getAIResponse for a new message, from handleSubmit, up to the invocation
\* of gemini-chat: chatMessages is the buffer of the closure of handleSubmit,
\* in which the message being sent is not yet
getAIResponseRequest(text, att) ==
    /\ chatHistory' = BuildChatHistory(chatMessages, text, 0)
    /\ lastOp' = OpCall("getAIResponse:request", activeChatSessionId,
                        [pc |-> "none", text |-> text, docs |-> att.docs,
                         notes |-> att.notes])
    /\ UNCHANGED <<documents, notes, context>>
    /\ UNCHANGED <<chatVars, audioVars, sessVars, delVars, editorVars>>

\* _getAIResponse for a regeneration of the last assistant message
getAIResponseUpdateRequest ==
    /\ AssistantIndices(chatMessages) # {}
    /\ UserIndices(chatMessages) # {}
    /\ LET u == chatMessages[LastIndex(UserIndices(chatMessages))]
           a == chatMessages[LastIndex(AssistantIndices(chatMessages))]
       IN  /\ chatHistory' = BuildChatHistory(chatMessages, u.content, a.id)
           /\ lastOp' = OpCall("getAIResponseUpdate:request", activeChatSessionId,
                               [pc |-> "none", text |-> u.content,
                                docs |-> u.attachedDocumentIds,
                                notes |-> u.attachedNoteIds])
    /\ UNCHANGED <<documents, notes, context>>
    /\ UNCHANGED <<chatVars, audioVars, sessVars, delVars, editorVars>>

(***************************************************************************)
(* Initial states                                                          *)
(***************************************************************************)
\* NoteEditor after mount: no audio, no job
AudioInit ==
    /\ audioProcessingJobId = NoJob
    /\ isProcessingAudio = FALSE
    /\ isGeneratingAudioNote = FALSE
    /\ isGeneratingAudioSummary = FALSE
    /\ isTranslatingAudio = FALSE
    /\ uploadedAudioDetails = FALSE
    /\ isAudioOptionsVisible = FALSE
    /\ pollInterval = NoJob
    /\ polls = <<>>
    /\ audioOp = NoAudioOp
    /\ jobStatus = [j \in 1..MaxJobs |-> "none"]
    /\ jobsStarted = 0
    /\ mounted = TRUE
    /\ noteVersion = 0
    /\ terminalSeen = {}
    /\ noteUpdates = [j \in 1..MaxJobs |-> 0]

\* the NoteEditor mounted on a note: both texts are note.content, the
\* debounce effect has set its first timer, nothing typed or saved yet
EditorInit ==
    /\ content = NoteContent
    /\ draftContent = NoteContent
    /\ debounce = Armed(NoteContent)
    /\ typed = NoText
    /\ saved = NoText

\* no handleDeleteMessage call yet
DelIdle ==
    /\ dels = <<>>
    /\ deletes = 0

\* a signed-in user, no session operation in flight
SessIdle ==
    /\ user = TRUE
    /\ sessLoads = <<>>
    /\ sessCalls = <<>>
    /\ opsLeft = 0
    /\ readFailed = FALSE

\* no document, no note, no request built
CtxIdle ==
    /\ documents = <<>>
    /\ notes = <<>>
    /\ chatHistory = <<>>
    /\ context = <<>>

\* Index after mount and its first effects, local state of the chat
ChatLocalInit ==
    /\ activeChatSessionId = NoSession
    /\ chatMessages = <<>>
    /\ hasMoreMessages = FALSE
    /\ isAILoading = FALSE
    /\ isSubmittingUserMessage = FALSE
    /\ chatSessionsLoadedCount = CHAT_SESSIONS_PER_PAGE
    /\ msgLoads = <<>>
    /\ olderLoads = <<>>
    /\ subs = <<>>
    /\ regens = <<>>
    /\ olderCalls = 0
    /\ submits = 0
    /\ regenCalls = 0

\* a stored conversation of n rows, alternating user and assistant; with
\* tie = 2 each timestamp is shared by two rows
StoredRow(i, tie) ==
    [id |-> i, session_id |-> 1,
     role |-> IF i % 2 = 1 THEN "user" ELSE "assistant",
     content |-> IF i % 2 = 1 THEN "q1" ELSE AIResponse,
     timestamp |-> (i + tie - 1) \div tie,
     is_error |-> FALSE,
     attached_document_ids |-> {},
     attached_note_ids |-> {}]

StoredSession ==
    [id |-> 1, title |-> NewChat, last_message_at |-> MaxStored + 1, document_ids |-> {}]

\* one session whose rows are already in the store, loaded into the list
PageInit ==
    /\ ChatLocalInit
    /\ AudioInit
    /\ EditorInit
    /\ DelIdle
    /\ SessIdle
    /\ CtxIdle
    /\ \E n \in 0..MaxStored, tie \in 1..2 :
          /\ dbMessages = {StoredRow(i, tie) : i \in 1..n}
          /\ nextId = n + 1
    /\ dbSessions = {StoredSession}
    /\ chatSessions = <<StoredSession>>
    /\ hasMoreChatSessions = FALSE
    /\ selectedDocumentIds = {}
    /\ now = MaxStored + 2
    /\ lastOp = Op("Init", 0)

PageNext ==
    \/ \E s \in 1..1 : onChatSessionSelect(s)
    \/ \E i \in 1..MaxLoads : loadSessionMessagesQuery(i)
    \/ \E i \in 1..MaxLoads : loadSessionMessagesReturn(i)
    \/ handleLoadOlderChatMessages
    \/ \E i \in 1..MaxLoads : handleLoadOlderQuery(i)
    \/ \E i \in 1..MaxLoads : handleLoadOlderReturn(i)

\* the Message Store alone: one session selected, then pages loaded
SpecPage == PageInit /\ [][PageNext]_vars

\* a signed-in user without any chat session
ChatInit ==
    /\ ChatLocalInit
    /\ AudioInit
    /\ EditorInit
    /\ DelIdle
    /\ SessIdle
    /\ CtxIdle
    /\ dbMessages = {}
    /\ dbSessions = {}
    /\ chatSessions = <<>>
    /\ hasMoreChatSessions = FALSE
    /\ selectedDocumentIds \in DocSelections
    /\ nextId = 1
    /\ now = 1
    /\ lastOp = Op("Init", 0)

ChatNext ==
    \/ \E inp \in Inputs : handleSubmit(inp.text, inp)
    \/ \E i \in 1..MaxSubmits : handleSubmitGetUser(i)
    \/ \E i \in 1..MaxSubmits : createNewChatSession(i)
    \/ \E i \in 1..MaxSubmits : createNewChatSessionReloaded(i)
    \/ \E i \in 1..MaxSubmits : handleSubmitSaveUser(i)
    \/ \E i \in 1..MaxSubmits : handleSubmitUserSaved(i)
    \/ \E i \in 1..MaxSubmits : getAIResponseInvoked(i)
    \/ \E i \in 1..MaxSubmits : getAIResponseSaveAI(i)
    \/ \E i \in 1..MaxSubmits : getAIResponseAISaved(i)
    \/ \E i \in 1..MaxSubmits : getAIResponseUpdateSession(i)
    \/ \E i \in 1..MaxSubmits : handleSubmitUpdateDocs(i)
    \/ \E i \in 1..MaxLoads : loadSessionMessagesQuery(i)
    \/ \E i \in 1..MaxLoads : loadSessionMessagesReturn(i)
    \/ handleRegenerateResponse
    \/ \E k \in 1..(2 * MaxSubmits) : handleRetryFailedMessage(k)
    \/ \E j \in 1..MaxRegens : getAIResponseUpdateInvoked(j)
    \/ \E j \in 1..MaxRegens : getAIResponseSaveUpdate(j)
    \/ \E j \in 1..MaxRegens : getAIResponseUpdateSaved(j)
    \/ \E j \in 1..MaxRegens : getAIResponseUpdateDone(j)

\* the chat of one user: submissions, regenerations and retries, and the
\* loads their session changes trigger
SpecChat == ChatInit /\ [][ChatNext]_vars

\* lengths of the texts of documents and notes: none, at the limit, one more,
\* far more
DocContentLengths == {0, DOC_CONTENT_LIMIT, DOC_CONTENT_LIMIT + 1, 2 * DOC_CONTENT_LIMIT}

NoteContentLengths == {0, NOTE_CONTENT_LIMIT, NOTE_CONTENT_LIMIT + 1, 2 * NOTE_CONTENT_LIMIT}

TitleLengths == {1, 2 * DOC_CONTENT_LIMIT + 1}

SummaryLengths == {0, 2 * DOC_CONTENT_LIMIT + 1}

\* processing_status as the sequence of its characters
StatusCompleted == <<"c", "o", "m", "p", "l", "e", "t", "e", "d">>
StatusPending == <<"p", "e", "n", "d", "i", "n", "g">>

DocumentsD1 ==
    [id : {"d1"}, title : TitleLengths, file_name : {1}, type : {"image", "text"},
     content_extracted : DocContentLengths,
     processing_status : {StatusCompleted, StatusPending}]

DocumentD2 ==
    [id |-> "d2", title |-> 1, file_name |-> 1, type |-> "pdf",
     content_extracted |-> 1, processing_status |-> StatusCompleted]

NotesN1 ==
    [id : {"n1"}, title : {1}, category : {1}, content : NoteContentLengths,
     aiSummary : SummaryLengths, tags : {0, 1}]

\* the earlier exchange of the session: a question with attachments and its
\* answer
EarlierCall == [sid |-> 1, text |-> "q2", docs |-> {"d1"}, notes |-> {"n1"}]

EarlierRows == <<UserRow(EarlierCall, 1, 1), AssistantRow(EarlierCall, 2, 2)>>

\* a signed-in user in session 1, new or with one exchange, and the documents
\* and notes useAppData loaded
ContextInit ==
    /\ AudioInit
    /\ EditorInit
    /\ DelIdle
    /\ SessIdle
    /\ activeChatSessionId = 1
    /\ \E rows \in {<<>>, EarlierRows} :
          /\ dbMessages = Range(rows)
          /\ chatMessages = [k \in 1..Len(rows) |-> FormatMessage(rows[k])]
          /\ dbSessions = {[id |-> 1, title |-> NewChat, last_message_at |-> Len(rows),
                            document_ids |-> {}]}
          /\ chatSessions = <<[id |-> 1, title |-> NewChat, last_message_at |-> Len(rows),
                               document_ids |-> {}]>>
    /\ hasMoreMessages = FALSE
    /\ isAILoading = FALSE
    /\ isSubmittingUserMessage = FALSE
    /\ selectedDocumentIds = {}
    /\ chatSessionsLoadedCount = CHAT_SESSIONS_PER_PAGE
    /\ hasMoreChatSessions = FALSE
    /\ msgLoads = <<>>
    /\ olderLoads = <<>>
    /\ subs = <<>>
    /\ regens = <<>>
    /\ nextId = Len(EarlierRows) + 1
    /\ now = Len(EarlierRows) + 1
    /\ olderCalls = 0
    /\ submits = 0
    /\ regenCalls = 0
    /\ documents \in {<<>>} \cup {<<d, DocumentD2>> : d \in DocumentsD1}
    /\ notes \in {<<>>} \cup {<<n>> : n \in NotesN1}
    /\ chatHistory = <<>>
    /\ context = <<>>
    /\ lastOp = Op("Init", 0)

ContextNext ==
    \/ \E docIds \in {{}, {"d1"}, {"d1", "d2"}}, noteIds \in {{}, {"n1"}} :
          buildRichContextCall(docIds, noteIds)
    \/ \E inp \in Inputs : getAIResponseRequest(inp.text, inp)
    \/ getAIResponseUpdateRequest

\* the Context Builder and the request _getAIResponse builds with it
SpecContext == ContextInit /\ [][ContextNext]_vars


\* session 1 with one stored exchange whose question has attachments, just
\* selected by a signed-in user: its loadSessionMessages is in flight; one
\* submission, one older page, one deletion
MsgInit ==
    /\ AudioInit
    /\ EditorInit
    /\ DelIdle
    /\ SessIdle
    /\ CtxIdle
    /\ dbMessages = Range(EarlierRows)
    /\ dbSessions = {[id |-> 1, title |-> NewChat, last_message_at |-> Len(EarlierRows),
                      document_ids |-> {}]}
    /\ chatSessions = <<[id |-> 1, title |-> NewChat,
                         last_message_at |-> Len(EarlierRows), document_ids |-> {}]>>
    /\ activeChatSessionId = 1
    /\ chatMessages = <<>>
    /\ hasMoreMessages = FALSE
    /\ isAILoading = FALSE
    /\ isSubmittingUserMessage = FALSE
    /\ selectedDocumentIds = {}
    /\ chatSessionsLoadedCount = CHAT_SESSIONS_PER_PAGE
    /\ hasMoreChatSessions = FALSE
    /\ msgLoads = loadSessionMessages(<<>>, 1)
    /\ olderLoads = <<>>
    /\ subs = <<>>
    /\ regens = <<>>
    /\ nextId = Len(EarlierRows) + 1
    /\ now = Len(EarlierRows) + 1
    /\ olderCalls = MaxOlderCalls - 1
    /\ submits = MaxSubmits - 1
    /\ regenCalls = 0
    /\ lastOp = Op("Init", 0)

MsgNext ==
    \/ \E i \in 1..MaxLoads : loadSessionMessagesQuery(i)
    \/ \E i \in 1..MaxLoads : loadSessionMessagesReturn(i)
    \/ handleLoadOlderChatMessages
    \/ \E i \in 1..MaxLoads : handleLoadOlderQuery(i)
    \/ \E i \in 1..MaxLoads : handleLoadOlderReturn(i)
    \/ \E k \in 1..(2 * MaxSubmits) : handleDeleteMessage(k)
    \/ \E i \in 1..MaxDeletes : handleDeleteMessageDone(i)
    \/ \E inp \in Inputs : handleSubmit(inp.text, inp)
    \/ \E i \in 1..MaxSubmits : handleSubmitGetUser(i)
    \/ \E i \in 1..MaxSubmits : handleSubmitSaveUser(i)
    \/ \E i \in 1..MaxSubmits : handleSubmitUserSaved(i)
    \/ \E i \in 1..MaxSubmits : getAIResponseInvoked(i)
    \/ \E i \in 1..MaxSubmits : getAIResponseSaveAI(i)
    \/ \E i \in 1..MaxSubmits : getAIResponseAISaved(i)
    \/ \E i \in 1..MaxSubmits : getAIResponseUpdateSession(i)
    \/ \E i \in 1..MaxSubmits : handleSubmitUpdateDocs(i)
    \/ handleRegenerateResponse
    \/ \E k \in 1..(2 * MaxSubmits) : handleRetryFailedMessage(k)
    \/ \E j \in 1..MaxRegens : getAIResponseUpdateInvoked(j)
    \/ \E j \in 1..MaxRegens : getAIResponseSaveUpdate(j)
    \/ \E j \in 1..MaxRegens : getAIResponseUpdateSaved(j)
    \/ \E j \in 1..MaxRegens : getAIResponseUpdateDone(j)

\* the messages of one session: loads, older pages, deletion, a submission,
\* regeneration and retry
SpecMessages == MsgInit /\ [][MsgNext]_vars

\* stored session k: one question and its answer, no attachment
StoredChat(k) ==
    [id |-> k, title |-> NewChat, last_message_at |-> 2 * k, document_ids |-> {}]

StoredMessages(k) ==
    {[id |-> MaxStoredSessions + 2 * k - 1, session_id |-> k, role |-> "user",
      content |-> "q1", timestamp |-> 2 * k - 1, is_error |-> FALSE,
      attached_document_ids |-> {}, attached_note_ids |-> {}],
     [id |-> MaxStoredSessions + 2 * k, session_id |-> k, role |-> "assistant",
      content |-> AIResponse, timestamp |-> 2 * k, is_error |-> FALSE,
      attached_document_ids |-> {}, attached_note_ids |-> {}]}

\* Index after mount, before the user of useAppData() has arrived; the store
\* holds the sessions of earlier visits, their number one of stored
SessStart(stored) ==
    /\ AudioInit
    /\ EditorInit
    /\ DelIdle
    /\ CtxIdle
    /\ \E n \in stored :
          /\ dbSessions = {StoredChat(k) : k \in 1..n}
          /\ dbMessages = UNION {StoredMessages(k) : k \in 1..n}
    /\ nextId = 3 * MaxStoredSessions + 1
    /\ now = 2 * MaxStoredSessions + 1
    /\ chatSessions = <<>>
    /\ activeChatSessionId = NoSession
    /\ chatMessages = <<>>
    /\ hasMoreMessages = FALSE
    /\ isAILoading = FALSE
    /\ isSubmittingUserMessage = FALSE
    /\ selectedDocumentIds = {}
    /\ chatSessionsLoadedCount = CHAT_SESSIONS_PER_PAGE
    /\ hasMoreChatSessions = TRUE
    /\ msgLoads = <<>>
    /\ olderLoads = <<>>
    /\ subs = <<>>
    /\ regens = <<>>
    /\ olderCalls = 0
    /\ regenCalls = 0
    /\ user = FALSE
    /\ sessLoads = <<>>
    /\ sessCalls = <<>>
    /\ readFailed = FALSE
    /\ lastOp = Op("Init", 0)

\* no submission in these behaviours
SessInit ==
    /\ SessStart(0..MaxStoredSessions)
    /\ submits = MaxSubmits
    /\ opsLeft = MaxSessionOps

SessNext ==
    \/ signIn
    \/ \E i \in 1..MaxSessLoads : loadChatSessionsQuery(i)
    \/ \E i \in 1..MaxSessLoads : loadChatSessionsReturn(i)
    \/ handleLoadMoreChatSessions
    \/ \E s \in SessionIds(chatSessions) : onChatSessionSelect(s)
    \/ \E i \in 1..MaxLoads : loadSessionMessagesQuery(i)
    \/ \E i \in 1..MaxLoads : loadSessionMessagesReturn(i)
    \/ onNewChatSession
    \/ \E i \in 1..MaxSessCalls : onNewChatSessionInsert(i)
    \/ \E i \in 1..MaxSessCalls : onNewChatSessionReloaded(i)
    \/ \E s \in SessionIds(chatSessions) : deleteChatSession(s)
    \/ \E i \in 1..MaxSessCalls : deleteChatSessionRemove(i)
    \/ \E i \in 1..MaxSessCalls : deleteChatSessionReloaded(i)
    \/ \E s \in SessionIds(chatSessions) : renameChatSession(s)
    \/ \E i \in 1..MaxSessCalls : renameChatSessionDone(i)

\* the session list of one user: sign-in, paging, selection, new chat, delete,
\* rename
SpecSessions == SessInit /\ [][SessNext]_vars

\* one submission left, fewer session operations
SessChatInit ==
    /\ SessStart({MaxStoredSessions})
    /\ submits = MaxSubmits - 1
    /\ opsLeft = MaxSessionOpsChat

\* the operations on the session list; the answers of loadSessionMessages act
\* on the buffer only and are left to SpecSessions and SpecChat
SessChatNext ==
    \/ signIn
    \/ \E i \in 1..MaxSessLoads : loadChatSessionsQuery(i)
    \/ \E i \in 1..MaxSessLoads : loadChatSessionsReturn(i)
    \/ handleLoadMoreChatSessions
    \/ \E s \in SessionIds(chatSessions) : onChatSessionSelect(s)
    \/ onNewChatSession
    \/ \E i \in 1..MaxSessCalls : onNewChatSessionInsert(i)
    \/ \E i \in 1..MaxSessCalls : onNewChatSessionReloaded(i)
    \/ \E s \in SessionIds(chatSessions) : deleteChatSession(s)
    \/ \E i \in 1..MaxSessCalls : deleteChatSessionRemove(i)
    \/ \E i \in 1..MaxSessCalls : deleteChatSessionReloaded(i)
    \/ \E s \in SessionIds(chatSessions) : renameChatSession(s)
    \/ \E i \in 1..MaxSessCalls : renameChatSessionDone(i)
    \/ \E inp \in Inputs : inp.docs # {} /\ handleSubmit(inp.text, inp)
    \/ \E i \in 1..MaxSubmits : handleSubmitGetUser(i)
    \/ \E i \in 1..MaxSubmits : createNewChatSession(i)
    \/ \E i \in 1..MaxSubmits : createNewChatSessionReloaded(i)
    \/ \E i \in 1..MaxSubmits : handleSubmitSaveUser(i)
    \/ \E i \in 1..MaxSubmits : handleSubmitUserSaved(i)
    \/ \E i \in 1..MaxSubmits : getAIResponseInvoked(i)
    \/ \E i \in 1..MaxSubmits : getAIResponseSaveAI(i)
    \/ \E i \in 1..MaxSubmits : getAIResponseAISaved(i)
    \/ \E i \in 1..MaxSubmits : getAIResponseUpdateSession(i)
    \/ \E i \in 1..MaxSubmits : handleSubmitUpdateDocs(i)
    \/ handleRegenerateResponse
    \/ \E k \in 1..(2 * MaxSubmits) : handleRetryFailedMessage(k)
    \/ \E j \in 1..MaxRegens : getAIResponseUpdateInvoked(j)
    \/ \E j \in 1..MaxRegens : getAIResponseSaveUpdate(j)
    \/ \E j \in 1..MaxRegens : getAIResponseUpdateSaved(j)
    \/ \E j \in 1..MaxRegens : getAIResponseUpdateDone(j)

\* the session list while a message is submitted and answered
SpecSessionChat == SessChatInit /\ [][SessChatNext]_vars

AudioNext ==
    \/ handleAudioFileSelect
    \/ handleAudioFileSelectDone
    \/ \E kind \in Kinds : handleGenerateFromAudio(kind)
    \/ handleGenerateFromAudioDone
    \/ pollTick
    \/ \E j \in 1..MaxJobs : jobFinishes(j)
    \/ \E i \in 1..MaxPolls : pollJobStatusReturn(i)
    \/ \E c \in NoteContents : noteChange(c)
    \/ handleSave
    \/ handleClearAudioProcessing
    \/ unmount

\* the NoteEditor of one note slot: uploads, audio jobs and their polling
SpecAudio == ChatInit /\ [][AudioNext]_vars

\* the same, with what the runtime guarantees: a timer that is set fires, and
\* every remote call in flight (upload, job start, status read) returns
AudioFairness ==
    /\ WF_vars(pollTick)
    /\ WF_vars(\E i \in 1..MaxPolls : pollJobStatusReturn(i))
    /\ WF_vars(handleAudioFileSelectDone)
    /\ WF_vars(handleGenerateFromAudioDone)

SpecAudioLive == ChatInit /\ [][AudioNext]_vars /\ AudioFairness

EditorNext ==
    \/ \E text \in Typed : onChange(text)
    \/ debounceFires
    \/ handleSave
    \/ \E c \in NoteContents : noteChange(c)
    \/ unmount

\* the text of the NoteEditor: typing, the debounce timer, saving, and the
\* parent passing another note
SpecEditor == ChatInit /\ [][EditorNext]_vars

(***************************************************************************)
(* C1                                                                      *)
(***************************************************************************)
Chronological(buf) ==
    \A i, j \in 1..Len(buf) : i < j => buf[i].timestamp <= buf[j].timestamp

NoDuplicateIds(buf) ==
    \A i, j \in 1..Len(buf) : i # j => buf[i].id # buf[j].id

\* C1: after loadSessionMessages and any number of handleLoadOlderChatMessages
\* calls, overlapping ones included, the buffer is ordered by non-decreasing
\* timestamp and holds no id twice.
C1_BufferChronologicalNoDuplicates ==
    Chronological(chatMessages) /\ NoDuplicateIds(chatMessages)

(***************************************************************************)
(* C2 .. C7: the AI response orchestrator                                  *)
(***************************************************************************)
LoadsSettled == \A i \in 1..Len(msgLoads) : msgLoads[i].phase = "applied"

\* the only call so far was a handleSubmit that created its session and whose
\* AI call and store writes all succeeded; it has returned and the load that
\* the change of the active session triggered has been applied
FirstSubmitDone ==
    /\ lastOp.op = "handleSubmit:done"
    /\ lastOp.call.fresh
    /\ ~lastOp.call.dbErr
    /\ submits = 1
    /\ regenCalls = 0
    /\ Len(msgLoads) = 1
    /\ LoadsSettled

\* C2: a handleSubmit without an active session, with none existing, whose AI
\* call succeeds leaves exactly one session row, whose document_ids are the
\* attachments, and the buffer holding exactly the user message followed by
\* the assistant message, whatever the interleaving with loadSessionMessages.
C2_NewSessionSubmitExact ==
    FirstSubmitDone =>
        /\ Cardinality(dbSessions) = 1
        /\ \A r \in dbSessions : r.document_ids = lastOp.call.docs
        /\ Len(chatMessages) = 2
        /\ IsUser(chatMessages[1])
        /\ chatMessages[1].content = lastOp.call.text
        /\ IsAssistant(chatMessages[2])
        /\ ~chatMessages[2].isError

UpdateOps == {"handleRegenerateResponse", "handleRetryFailedMessage",
              "getAIResponseUpdate:saved", "getAIResponseUpdate:failed"}

\* new differs from old at most in content, timestamp and isError of the
\* messages whose id is target
FrameOnly(old, new, target) ==
    /\ Len(new) = Len(old)
    /\ \A k \in 1..Len(old) :
          \/ new[k] = old[k]
          \/ /\ old[k].id = target
             /\ IsAssistant(old[k])
             /\ new[k] = [old[k] EXCEPT !.content = new[k].content,
                                        !.timestamp = new[k].timestamp,
                                        !.isError = new[k].isError]

\* C3: every step of a regenerate or retry that writes the buffer changes only
\* content, timestamp and isError of the targeted assistant message; the number
\* of messages and every other message and field stay as they were.
C3_RegenerateFrame ==
    [][lastOp'.op \in UpdateOps => FrameOnly(chatMessages, chatMessages', lastOp'.id)]_vars

\* a retry of a failed message has shown its response, next to other messages
C3_RetryAnswered ==
    /\ lastOp.op = "getAIResponseUpdate:saved"
    /\ lastOp.call.kind = "handleRetryFailedMessage"
    /\ Len(chatMessages) >= 2
    /\ \E k \in 1..Len(chatMessages) :
          /\ chatMessages[k].id = lastOp.id
          /\ chatMessages[k].content = AIResponse
          /\ chatMessages[k].originalUserMessageContent # NoOriginal

\* C4: when the AI call of a new message fails (remote error, empty response,
\* or the assistant row cannot be saved) the buffer gains exactly one message:
\* an assistant message with isError true whose originalUserMessageContent is
\* the user's text.
C4_FailureAppendsOneError ==
    [][lastOp'.op = "getAIResponse:failed" =>
         /\ Len(chatMessages') = Len(chatMessages) + 1
         /\ SubSeq(chatMessages', 1, Len(chatMessages)) = chatMessages
         /\ IsAssistant(chatMessages'[Len(chatMessages')])
         /\ chatMessages'[Len(chatMessages')].isError
         /\ chatMessages'[Len(chatMessages')].originalUserMessageContent
                = lastOp'.call.text]_vars

\* the assistant row could not be saved: the buffer ends with the user
\* message and the error message
C4_SaveFailureShown ==
    /\ lastOp.op = "getAIResponse:failed"
    /\ lastOp.call.pc = "aiSaveFailed"
    /\ Len(chatMessages) >= 2
    /\ chatMessages[Len(chatMessages)].isError
    /\ IsUser(chatMessages[Len(chatMessages) - 1])

\* C5: a failed assistant message is a row of chat_messages with is_error set,
\* so that the retry of it, an update by id, stores its response in the store.
C5_FailedMessagePersisted ==
    /\ lastOp.op = "getAIResponse:failed" =>
          \E r \in dbMessages : /\ r.id = chatMessages[Len(chatMessages)].id
                                /\ r.is_error
    /\ (lastOp.op = "getAIResponseUpdate:saved"
            /\ lastOp.call.kind = "handleRetryFailedMessage") =>
          \E r \in dbMessages : /\ r.id = lastOp.id
                                /\ r.content = AIResponse

\* C6: while a handleSubmit that passed the guard is in flight, no second
\* handleSubmit passes the guard.
C6_OneSubmitInFlight == Len(subs) <= 1

\* a submission is in flight, its AI call already over, and a further one is
\* still refused
C6_SecondSubmitRefused ==
    /\ Len(subs) = 1
    /\ subs[1].pc = "updateDocs"
    /\ submits < MaxSubmits
    /\ ~isAILoading
    /\ ~SubmitGuard

SubmitExits == {"handleSubmit:noUser", "handleSubmit:noSession",
                "handleSubmit:saveFailed", "handleSubmit:aiFailed",
                "handleSubmit:done"}

\* C7: isAILoading and isSubmittingUserMessage are both set before the AI call
\* starts, and both are false after handleSubmit returns, on every exit path.
C7_FlagsSetAndCleared ==
    /\ lastOp.op = "getAIResponse" => isAILoading /\ isSubmittingUserMessage
    /\ lastOp.op \in SubmitExits => ~isAILoading /\ ~isSubmittingUserMessage

(***************************************************************************)
(* C8 .. C10: the audio job poller                                         *)
(***************************************************************************)
Seen(j, kind) == [job |-> j, kind |-> kind] \in terminalSeen

\* the steps that start a status read: an interval tick, the first check of
\* a started job, the check the polling effect makes when the note changes
IssuesPoll ==
    \/ lastOp.op \in {"tick", "jobStarted"}
    \/ lastOp.op = "noteChange" /\ lastOp.id # NoJob

\* C8: once a poll of a job has observed completed or error, no interval is
\* left polling that job and no later tick or first check reads its status.
C8_NoPollAfterTerminal ==
    \A j \in 1..MaxJobs :
        (Seen(j, "completed") \/ Seen(j, "error")) =>
            /\ pollInterval # j
            /\ ~(IssuesPoll /\ lastOp.id = j)

\* the interval of a later job ticks after an earlier job was seen completed
C8_LaterJobStillPolled ==
    /\ lastOp.op = "tick"
    /\ mounted
    /\ \E j \in 1..MaxJobs : j # lastOp.id /\ Seen(j, "completed")

StopsClaimed == {"poll:completed", "poll:error", "poll:failed", "unmount"}

\* C9: the polling interval of a job is stopped only by a poll that observes
\* completed, error or a failed read, or by the unmount; a change of the note
\* prop, a note save or clearing audio processing does not stop it.
C9_StoppedOnlyByTerminalOrUnmount ==
    [][(pollInterval # NoJob /\ pollInterval' # pollInterval)
           => lastOp'.op \in StopsClaimed]_vars

\* C9 (amended): the polling interval of a job is stopped only by a poll that
\* observes completed, error or a failed read, by the unmount, by a change of
\* the note prop, by handleClearAudioProcessing, or by the start of another
\* job; a note save and a poll that observes processing do not stop it.
C9_StopCauses ==
    [][(pollInterval # NoJob /\ pollInterval' # pollInterval)
           => lastOp'.op \in StopsClaimed \cup
                  {"noteChange", "handleClearAudioProcessing", "jobStarted"}]_vars

\* the note prop changed while a job was processing: its interval is gone
C9_StoppedByNoteChange ==
    /\ lastOp.op = "noteChange"
    /\ lastOp.id # NoJob
    /\ jobStatus[lastOp.id] = "processing"
    /\ pollInterval = NoJob
    /\ mounted

\* C10: a failed read of the status row is terminal: the job id is null,
\* isProcessingAudio, isGeneratingAudioNote, isGeneratingAudioSummary and
\* isTranslatingAudio are false, the interval is stopped, and no later tick
\* or check reads the status of that job again.
C10_FailedReadTerminal ==
    /\ (lastOp.op = "poll:failed" /\ mounted) =>
          /\ audioProcessingJobId = NoJob
          /\ ~AudioBusy
          /\ pollInterval = NoJob
    /\ \A j \in 1..MaxJobs :
          Seen(j, "failed") => /\ pollInterval # j
                               /\ ~(IssuesPoll /\ lastOp.id = j)

\* the read of a job that is still processing failed, and nothing polls
C10_ReadFailedWhileProcessing ==
    /\ lastOp.op = "poll:failed"
    /\ mounted
    /\ jobStatus[lastOp.id] = "processing"
    /\ polls = <<>>
    /\ pollInterval = NoJob

(***************************************************************************)
(* C11, C12: deleteChatSession                                             *)
(***************************************************************************)
\* no call is in flight: every request has been answered and the answer used
Quiescent ==
    /\ subs = <<>>
    /\ regens = <<>>
    /\ sessCalls = <<>>
    /\ sessLoads = <<>>
    /\ olderLoads = <<>>
    /\ \A i \in 1..Len(msgLoads) : msgLoads[i].phase \in {"applied", "failed"}

\* no read of the store has failed
ReadsSucceeded ==
    /\ ~readFailed
    /\ \A i \in 1..Len(msgLoads) : msgLoads[i].phase # "failed"

\* C11: once the last session of the user has been deleted and every call
\* has returned, a loadSessionMessages call that was in flight at the delete
\* included, activeChatSessionId is null and the buffer is empty.
C11_DeleteOnlyActiveClears ==
    (user /\ dbSessions = {} /\ Quiescent /\ ReadsSucceeded) =>
        /\ activeChatSessionId = NoSession
        /\ chatMessages = <<>>

\* the id of the stored session with the greatest last_message_at
MostRecentStored ==
    IF dbSessions = {} THEN NoSession ELSE OrderSessions(dbSessions)[1].id

\* C12: when deleteChatSession returns after deleting the session that was
\* active when it was called and is active still, and no other call is in
\* flight, activeChatSessionId becomes the stored session with the greatest
\* last_message_at, or null when none is left, and never keeps naming the
\* deleted session.
C12_DeleteReselects ==
    [][(/\ lastOp'.op = "deleteChatSession:done"
        /\ lastOp'.call.closActive = lastOp'.call.sid
        /\ activeChatSessionId = lastOp'.call.sid
        /\ Quiescent'
        /\ ReadsSucceeded')
       => /\ activeChatSessionId' = MostRecentStored'
          /\ activeChatSessionId' # lastOp'.call.sid]_vars

(***************************************************************************)
(* C17, C18: the buffer and the active session                             *)
(***************************************************************************)
\* C17: while activeChatSessionId names a session, the buffer holds no message
\* of another session, in particular none of the session that was active
\* before a switch.
C17_BufferOfActiveSession ==
    activeChatSessionId # NoSession =>
        \A k \in 1..Len(chatMessages) : chatMessages[k].session_id = activeChatSessionId

\* C18: with no active session and no call in flight, calls started for a
\* session that was active before having returned, the buffer is empty and
\* hasMoreMessages is false.
C18_NoSessionEmptyBuffer ==
    (activeChatSessionId = NoSession /\ Quiescent /\ ReadsSucceeded) =>
        /\ chatMessages = <<>>
        /\ ~hasMoreMessages

(***************************************************************************)
(* C19, C20: createNewChatSession                                          *)
(***************************************************************************)
\* C19: when createNewChatSession returns the id of the session it inserted,
\* chatSessionsLoadedCount is CHAT_SESSIONS_PER_PAGE, the loadChatSessions it
\* awaited fetched with CHAT_SESSIONS_PER_PAGE, the new session is in the
\* local list, and it is active with an empty buffer.
C19_CreateResetsFirstPage ==
    (lastOp.op = "createNewChatSession:done" /\ ReadsSucceeded) =>
        /\ chatSessionsLoadedCount = CHAT_SESSIONS_PER_PAGE
        /\ lastOp.call.closCount = CHAT_SESSIONS_PER_PAGE
        /\ lastOp.id \in SessionIds(chatSessions)
        /\ activeChatSessionId = lastOp.id
        /\ chatMessages = <<>>

CreateFailures == {"createNewChatSession:noUser", "createNewChatSession:failed",
                   "handleSubmit:noSession"}

\* C20: a createNewChatSession that returns null, for want of a user or
\* because the insert failed, leaves the store, the local session list,
\* activeChatSessionId, the buffer and chatSessionsLoadedCount as they were.
C20_CreateFailsClosed ==
    [][lastOp'.op \in CreateFailures =>
          UNCHANGED <<dbSessions, dbMessages, chatSessions, activeChatSessionId,
                      chatMessages, chatSessionsLoadedCount>>]_vars

\* a failing insert after the counter had grown and a session was active
C20_InsertFailedAfterLoadMore ==
    /\ lastOp.op = "createNewChatSession:failed"
    /\ chatSessionsLoadedCount > CHAT_SESSIONS_PER_PAGE
    /\ chatSessions # <<>>

(***************************************************************************)
(* C13: document_ids of a session                                          *)
(***************************************************************************)
UserRowsOf(s) == {r \in MessagesOf(s) : r.role = "user"}

\* the attachments of the user's latest message in session s
LatestAttachments(s) ==
    (CHOOSE r \in UserRowsOf(s) : \A q \in UserRowsOf(s) : q.timestamp <= r.timestamp)
        .attached_document_ids

\* C13: once the first handleSubmit has returned, its AI call answered or
\* failed and no write to the store refused, and no call is in flight, the
\* document_ids of every session with a message, in the store and in the
\* local list, are the documents attached to the latest message the user sent
\* in it.
C13_DocumentIdsOfLatestMessage ==
    (/\ lastOp.op \in {"handleSubmit:done", "handleSubmit:aiFailed"}
     /\ ~lastOp.call.dbErr
     /\ submits = 1
     /\ regenCalls = 0
     /\ Quiescent
     /\ ReadsSucceeded)
    => \A r \in dbSessions :
          UserRowsOf(r.id) # {} =>
              /\ r.document_ids = LatestAttachments(r.id)
              /\ r.id \in SessionIds(chatSessions) =>
                     SessionRow(chatSessions, r.id).document_ids = LatestAttachments(r.id)

(***************************************************************************)
(* C14: the local session list                                             *)
(***************************************************************************)
SortedByLastMessage(list) ==
    \A i, j \in 1..Len(list) : i < j => list[i].last_message_at >= list[j].last_message_at

AIDone == {"getAIResponse:done", "getAIResponseUpdate:done"}

\* C14: the local session list is sorted by last_message_at, newest first, in
\* every state (after loads, load more, create, delete, rename, AI success);
\* and when _getAIResponse has succeeded, in either mode, the local entry of
\* its session carries the attachment ids passed to the call and the time of
\* the refresh as last_message_at.
C14_SessionListSorted ==
    /\ SortedByLastMessage(chatSessions)
    /\ (lastOp.op \in AIDone /\ lastOp.call.sid \in SessionIds(chatSessions)) =>
          /\ SessionRow(chatSessions, lastOp.call.sid).document_ids = lastOp.call.docs
          /\ SessionRow(chatSessions, lastOp.call.sid).last_message_at = now - 1
          /\ chatSessions[1].id = lastOp.call.sid

\* the older of two listed sessions was answered with attachments and moved
\* to the head of the list
C14_OlderSessionMovedUp ==
    /\ lastOp.op \in AIDone
    /\ Len(chatSessions) >= 2
    /\ lastOp.call.sid = 1
    /\ lastOp.call.docs # {}
    /\ chatSessions[1].id = 1

\* every piece of a text that is the value of a field of a document or note
PiecesOf(text) == {text[k] : k \in {j \in 1..Len(text) : text[j].owner # ""}}

IsDocument(id) == id \in {documents[k].id : k \in 1..Len(documents)}

LimitOf(id) == IF IsDocument(id) THEN DOC_CONTENT_LIMIT ELSE NOTE_CONTENT_LIMIT

ContentFields == {"content_extracted", "content"}

\* C15 as stated: in the text buildRichContext returned, every field of every
\* document contributes at most 2000 + 3 characters and every field of every
\* note at most 1500 + 3.
C15_EveryFieldBounded ==
    \A p \in PiecesOf(context) : p.len <= LimitOf(p.owner) + ELLIPSIS_LENGTH

\* C15, amended: in the text buildRichContext returned, the extracted content
\* of a document contributes at most 2000 + 3 characters and the content of a
\* note at most 1500 + 3; a content cut short contributes exactly the limit
\* plus the ellipsis.
C15_ContentBounded ==
    \A p \in PiecesOf(context) :
        p.field \in ContentFields =>
            /\ p.len <= LimitOf(p.owner) + ELLIPSIS_LENGTH
            /\ p.cut => p.len = LimitOf(p.owner) + ELLIPSIS_LENGTH

\* a context with the cut content of a document and the cut content of a note
C15_BothContentsCut ==
    /\ lastOp.op = "buildRichContext"
    /\ \E p \in PiecesOf(context) :
          p.field = "content_extracted" /\ p.cut
              /\ p.len = DOC_CONTENT_LIMIT + ELLIPSIS_LENGTH
    /\ \E p \in PiecesOf(context) :
          p.field = "content" /\ p.cut /\ p.len = NOTE_CONTENT_LIMIT + ELLIPSIS_LENGTH

\* the parts of all turns of a chatHistory
PartsOf(history) ==
    UNION {Range(history[k].parts) : k \in 1..Len(history)}

\* C16: the request built for a new message carries the text buildRichContext
\* returns for the documents and notes attached to that message, whenever
\* that text is not empty.
C16_RequestCarriesContext ==
    (/\ lastOp.op = "getAIResponse:request"
     /\ buildRichContext(lastOp.call.docs, lastOp.call.notes, documents, notes) # <<>>)
        => \E part \in PartsOf(chatHistory) :
              part.context = buildRichContext(lastOp.call.docs, lastOp.call.notes,
                                              documents, notes)

(***************************************************************************)
(* C21 .. C25: messages of the buffer and requests of the orchestrator     *)
(***************************************************************************)
\* C21: no step changes the attachment ids of a message that exists before
\* and after it, in the buffer and in the remote store: send, regenerate,
\* retry, the deletion of another message, a load and a load of older
\* messages leave attachedDocumentIds and attachedNoteIds as they were stored.
C21_AttachmentsImmutable ==
    [][/\ \A i \in 1..Len(chatMessages), j \in 1..Len(chatMessages') :
             chatMessages[i].id = chatMessages'[j].id =>
                 /\ chatMessages'[j].attachedDocumentIds =
                        chatMessages[i].attachedDocumentIds
                 /\ chatMessages'[j].attachedNoteIds = chatMessages[i].attachedNoteIds
       /\ \A r \in dbMessages, q \in dbMessages' :
             r.id = q.id =>
                 /\ q.attached_document_ids = r.attached_document_ids
                 /\ q.attached_note_ids = r.attached_note_ids]_vars

\* a regeneration has completed after another message was deleted, and the
\* stored question still has its attachments in the buffer and in the store
C21_AttachedAfterRegenerate ==
    /\ lastOp.op = "getAIResponseUpdate:done"
    /\ deletes = MaxDeletes
    /\ \E k \in 1..Len(chatMessages) :
          /\ chatMessages[k].id = 1
          /\ chatMessages[k].attachedDocumentIds = EarlierCall.docs
          /\ chatMessages[k].attachedNoteIds = EarlierCall.notes
    /\ \E r \in dbMessages :
          /\ r.id = 1
          /\ r.attached_document_ids = EarlierCall.docs
          /\ r.attached_note_ids = EarlierCall.notes

\* the sessions the messages of the buffer belong to
BufferSessions == {chatMessages[k].session_id : k \in 1..Len(chatMessages)}

\* C22: every message in the local buffer belongs to the session named by
\* activeChatSessionId, also while calls started for another session are in
\* flight or return.
C22_BufferBelongsToActive == BufferSessions \subseteq {activeChatSessionId}

\* steps of a call between the entry of _getAIResponse and its finally
AIPhases == {"aiCall", "saveAI", "aiSaved", "aiSaveFailed", "updateSession"}

\* the _getAIResponse invocations in flight: those of submissions and those
\* of regenerations and retries
AIInFlight ==
    Cardinality({i \in 1..Len(subs) : subs[i].pc \in AIPhases}) + Len(regens)

\* C23: at most one _getAIResponse invocation is in flight at any time, and
\* isAILoading is true as long as one is.
C23_OneAIResponseInFlight ==
    /\ AIInFlight <= 1
    /\ AIInFlight > 0 => isAILoading

\* the user turns of a chatHistory that start with a text
TurnsWithText(history, text) ==
    {k \in 1..Len(history) :
        /\ history[k].role = "user"
        /\ history[k].parts # <<>>
        /\ history[k].parts[1].text = text}

\* the user messages of the buffer with a text
PromptsWithText(buf, text) == {k \in UserIndices(buf) : buf[k].content = text}

RequestOps == {"getAIResponse:request", "getAIResponseUpdate:request"}

\* C24: in every request built by _getAIResponse the prompt being answered
\* appears exactly once in chatHistory, as its final user turn: the turns
\* with its text are that final turn and one for every other user message
\* of the buffer with the same text (in regenerate / retry mode the prompt
\* is itself a message of the buffer).
C24_PromptOnceInRequest ==
    lastOp.op \in RequestOps =>
        /\ chatHistory[Len(chatHistory)].role = "user"
        /\ Len(chatHistory) \in TurnsWithText(chatHistory, lastOp.call.text)
        /\ Cardinality(TurnsWithText(chatHistory, lastOp.call.text)) =
              Cardinality(PromptsWithText(chatMessages, lastOp.call.text))
                  + (IF lastOp.op = "getAIResponse:request" THEN 1 ELSE 0)

BufferIds == {chatMessages[k].id : k \in 1..Len(chatMessages)}

\* C25: pagination loses no message: once the session was loaded and a
\* handleLoadOlderChatMessages call has returned fewer than a page (no call
\* left in flight, no read failed), every stored message of the active
\* session is in the buffer.
C25_PaginationLosesNoMessage ==
    (/\ activeChatSessionId # NoSession
     /\ lastOp.op = "handleLoadOlderReturn"
     /\ ~hasMoreMessages
     /\ olderLoads = <<>>
     /\ msgLoads # <<>>
     /\ LoadsSettled)
        => {r.id : r \in MessagesOf(activeChatSessionId)} \subseteq BufferIds

(***************************************************************************)
(* C30: handleDeleteMessage                                                *)
(***************************************************************************)
DeleteExits == {"handleDeleteMessage:done", "handleDeleteMessage:failed"}

\* C30: when handleDeleteMessage has completed, the message is in the buffer
\* exactly if its row is in the store: a message whose remote delete failed
\* is still in the buffer.
C30_DeleteAgrees ==
    lastOp.op \in DeleteExits =>
        (lastOp.id \in BufferIds <=> lastOp.id \in {r.id : r \in dbMessages})

(***************************************************************************)
(* C26 .. C29: the NoteEditor                                              *)
(***************************************************************************)
\* C26: the completion of an audio job is applied at most once: for one job
\* id the poller calls onNoteUpdate at most once, also when several status
\* reads are in flight at the same time.
C26_CompletionAppliedOnce == \A j \in 1..MaxJobs : noteUpdates[j] <= 1

\* C27: the audio state is never stuck in processing: when isProcessingAudio
\* is true and neither an upload, a job start nor a status read is in
\* progress, audioProcessingJobId names a job and its interval is running.
C27_ProcessingHasJob ==
    (mounted /\ isProcessingAudio /\ audioOp = NoAudioOp /\ polls = <<>>)
        => audioProcessingJobId # NoJob /\ pollInterval = audioProcessingJobId

\* C29: handleSave stores the text typed last into the editor: the note it
\* passes to onNoteUpdate has that text as content.
C29_SaveStoresTyped ==
    (lastOp.op = "handleSave" /\ typed # NoText) => saved = typed

\* every job started so far has reached completed or error
AllJobsTerminal ==
    /\ jobsStarted > 0
    /\ \A j \in 1..jobsStarted : jobStatus[j] \in {"completed", "error"}

\* polling has stopped and no audio flag is left set
AudioStopped ==
    /\ audioProcessingJobId = NoJob
    /\ pollInterval = NoJob
    /\ ~isProcessingAudio
    /\ ~isGeneratingAudioNote
    /\ ~isGeneratingAudioSummary
    /\ ~isTranslatingAudio

\* C28: if every status read returns and the jobs started have reached
\* completed or error, then polling eventually stops with
\* audioProcessingJobId null and all audio flags false (unless the editor
\* unmounts or a further job is started first).
C28_PollingTerminates ==
    (mounted /\ AllJobsTerminal) ~> (AudioStopped \/ ~mounted \/ ~AllJobsTerminal)

=============================================================================
